---------------------------- MODULE Spec2Model ----------------------------
(***************************************************************************)
(* Harbor Trajectory Planner: the leg builder (calculateTrajectory), the   *)
(* plan store of App.tsx that feeds it, the playback interpolator          *)
(* (calculateAnimationState) and the playback driver (toggleAnimation /    *)
(* animate) of useAnimation.ts.                                            *)
(*                                                                         *)
(* Number representation.  The code works on IEEE doubles; the model works *)
(* on integers:                                                            *)
(*   - a coordinate is a whole number of lattice steps of 0.001 degree     *)
(*     around (0N, 0E).  On that lattice cos(lat) differs from 1 by less   *)
(*     than 2e-9, the haversine distance is the planar distance times the  *)
(*     metres of one step, and the initial bearing depends on the          *)
(*     coordinate differences only (to 0.01 degree);                       *)
(*   - an angle is a whole number of hundredths of a degree;               *)
(*   - a length is in whole metres, a leg time in whole seconds, a host    *)
(*     timestamp in milliseconds; speeds are in knots.                     *)
(* Square roots and quotients are rounded down.                            *)
(***************************************************************************)
EXTENDS Integers, Sequences, FiniteSets, TLC

VARIABLES
    waypoints,             \* App.tsx: useState<Waypoint[]>
    ship,                  \* App.tsx: useState<Ship>
    pivotDuration,         \* App.tsx: settings.pivotDuration
    environmentalFactors,  \* App.tsx: useState<EnvironmentalFactors>
    clock,                 \* Date.now() as seen by handleAddWaypoint
    trajectoryLegs,        \* useTrajectoryCalculations(...): the memoised legs
    preview,               \* PlanningCanvas: the drag preview being shown
    turnCase,              \* a leg index and two courses given to legCommand
    turnResult,            \* what legCommand returned for turnCase
    funCase,               \* the input given to a pure function under study
    funResult,             \* what the function returned for funCase
    isAnimating,           \* useAnimation: useState(false)
    closureIsAnimating,    \* isAnimating as captured by toggleAnimation
    animationState,        \* useAnimation: useState<AnimationState | null>
    animationFrameId,      \* useAnimation: useRef, 0 for null
    animationData,         \* useAnimation: useRef {lastTimestamp, scaledElapsed}
    playbackSpeed,         \* App.tsx: useState(1), read through playbackSpeedRef
    frames,                \* the host's pending requestAnimationFrame callbacks
    timers,                \* the host's pending setTimeout callbacks
    now,                   \* the host's clock, in milliseconds
    nextFrameId,           \* the next id requestAnimationFrame hands out
    session,               \* history: the number of sessions started
    cancelled,             \* history: the sessions stopped by toggleAnimation
    stopped,               \* history: a stop with no start after it
    hold,                  \* history: the last completion, until a new start
    sessionTicks           \* history: the ticks of the current session

planVars == <<waypoints, ship, pivotDuration, environmentalFactors, clock,
              trajectoryLegs, preview>>
turnVars == <<turnCase, turnResult>>
funVars == <<funCase, funResult>>
pureVars == <<turnVars, funVars>>
hostVars == <<frames, timers, now, nextFrameId>>
driverVars == <<isAnimating, closureIsAnimating, animationState,
                animationFrameId, animationData, playbackSpeed, hostVars>>
historyVars == <<session, cancelled, stopped, hold, sessionTicks>>
animVars == <<driverVars, historyVars>>
nonPlanVars == <<pureVars, animVars>>

-----------------------------------------------------------------------------
(* Bounds of the model *)

MaxWaypoints == 3
MaxCoord == 1
MaxClock == 3
MaxNow == 2000
MaxSessions == 2
MaxBuildWaypoints == 4

(* Program constants *)

TURN_THRESHOLD == 500
DefaultSpeed == 5
DefaultPivotDuration == 30
DefaultTurningRadius == 300
MetresPerStep == 111
CurveSegments == 20
KnotMicroMps == 514444
FullCircle == 36000
HalfCircle == 18000

FORWARD == "Forward"
ASTERN == "Astern"
START == "Start"
PORT == "Port"
STARBOARD == "Starboard"
STRAIGHT == "Straight"
END == "End of Plan"

(* An optional field that is absent (undefined in the code). *)
undefined == "undefined"
NoSpeed == 0 - 1
NoPoint == [absent |-> TRUE]

(* An optional number: absent, the not-a-number value, or a value. *)
NoNumber == [absent |-> TRUE]
NaN == [nan |-> TRUE]
Number(x) == [value |-> x]

(* The values the editing handlers are offered. *)
Coords == 0..MaxCoord
GeoPoints == [lat : Coords, lng : Coords]
Speeds == {0, DefaultSpeed}
Propulsions == {FORWARD, ASTERN}
PivotDurations == {0, DefaultPivotDuration}
TurningRadii == {60, DefaultTurningRadius}
DefaultShip == [length |-> 150, beam |-> 25, turningRadius |-> DefaultTurningRadius]
NoDrift == [driftEnabled |-> FALSE,
            wind |-> [speed |-> 0, direction |-> 0],
            current |-> [speed |-> 0, direction |-> 0]]
Environments == {NoDrift, [NoDrift EXCEPT !.driftEnabled = TRUE]}

-----------------------------------------------------------------------------
(* Geodesy *)

Abs(x) == IF x < 0 THEN 0 - x ELSE x

RECURSIVE SqrtSearch(_, _, _)
SqrtSearch(n, lo, hi) ==
    IF lo >= hi THEN lo
    ELSE LET mid == (lo + hi + 1) \div 2
         IN  IF mid * mid <= n THEN SqrtSearch(n, mid, hi)
             ELSE SqrtSearch(n, lo, mid - 1)

(* Math.sqrt, rounded down *)
Sqrt(n) == SqrtSearch(n, 0, 46340)

(* getBearing on the lattice, by (dlat, dlng) in -3..3, in 0.01 degree *)
BearingTable ==
    <<
      <<22500, 21369, 19843, 18000, 16157, 14631, 13500>>,
      <<23631, 22500, 20657, 18000, 15343, 13500, 12369>>,
      <<25157, 24343, 22500, 18000, 13500, 11657, 10843>>,
      <<27000, 27000, 27000,     0,  9000,  9000,  9000>>,
      <<28843, 29657, 31500,     0,  4500,  6343,  7157>>,
      <<30369, 31500, 33343,     0,  2657,  4500,  5631>>,
      <<31500, 32631, 34157,     0,  1843,  3369,  4500>>
    >>

getBearing(p1, p2) ==
    IF p1.lat = p2.lat /\ p1.lng = p2.lng THEN 0
    ELSE BearingTable[p2.lat - p1.lat + 4][p2.lng - p1.lng + 4]

(* getDistance between two lattice points, in metres *)
getDistance(p1, p2) ==
    LET dLat == p2.lat - p1.lat
        dLng == p2.lng - p1.lng
    IN  Sqrt((dLat * dLat + dLng * dLng) * MetresPerStep * MetresPerStep)

(* sin(d degrees) * 10000 for d = 0..90, at index d + 1 *)
SinTable ==
    <<
          0,   175,   349,   523,   698,   872,  1045,  1219,  1392,  1564,
       1736,  1908,  2079,  2250,  2419,  2588,  2756,  2924,  3090,  3256,
       3420,  3584,  3746,  3907,  4067,  4226,  4384,  4540,  4695,  4848,
       5000,  5150,  5299,  5446,  5592,  5736,  5878,  6018,  6157,  6293,
       6428,  6561,  6691,  6820,  6947,  7071,  7193,  7314,  7431,  7547,
       7660,  7771,  7880,  7986,  8090,  8192,  8290,  8387,  8480,  8572,
       8660,  8746,  8829,  8910,  8988,  9063,  9135,  9205,  9272,  9336,
       9397,  9455,  9511,  9563,  9613,  9659,  9703,  9744,  9781,  9816,
       9848,  9877,  9903,  9925,  9945,  9962,  9976,  9986,  9994,  9998,
      10000
    >>

(* sin of an angle of the first quadrant, in 0.01 degree, interpolated    *)
(* between whole degrees; the result is in 1/10000                         *)
SinQuadrant(a) ==
    LET d == a \div 100
        f == a % 100
    IN  IF f = 0 THEN SinTable[d + 1]
        ELSE SinTable[d + 1]
             + ((SinTable[d + 2] - SinTable[d + 1]) * f + 50) \div 100

(* Math.sin(toRad(a)) and Math.cos(toRad(a)) for a in 0.01 degree, in     *)
(* 1/10000                                                                 *)
Sin(a) ==
    LET r == a % FullCircle
    IN  IF r <= 9000 THEN SinQuadrant(r)
        ELSE IF r <= HalfCircle THEN SinQuadrant(HalfCircle - r)
        ELSE IF r <= 27000 THEN 0 - SinQuadrant(r - HalfCircle)
        ELSE 0 - SinQuadrant(FullCircle - r)

Cos(a) == Sin(a + 9000)

(* Math.asin(num / den) for 0 <= num <= den, den > 0, in 0.01 degree, to  *)
(* the nearest degree                                                      *)
AsinDeg(num, den) ==
    100 * Cardinality({d \in 1..90 :
              (SinTable[d] + SinTable[d + 1]) * den <= 2 * 10000 * num})

(* x * y / z rounded to the nearest integer, for z > 0 *)
MulDiv(x, y, z) ==
    IF x * y >= 0 THEN (x * y + z \div 2) \div z
    ELSE 0 - ((0 - x * y + z \div 2) \div z)

-----------------------------------------------------------------------------
(* Catmull-Rom *)

(* The binary floating point of the host, round to nearest, ties to even, *)
(* with MantissaBits significant bits (53 in the host). A number is an     *)
(* integer count of a unit; there is no overflow and no underflow at the   *)
(* sizes used here.                                                        *)
MantissaBits == 5

RECURSIVE Pow2(_)
Pow2(k) == IF k = 0 THEN 1 ELSE 2 * Pow2(k - 1)

(* the spacing of the representable numbers around x *)
RECURSIVE Quantum(_)
Quantum(x) ==
    IF Abs(x) < Pow2(MantissaBits) THEN 1 ELSE 2 * Quantum(Abs(x) \div 2)

(* the representable number nearest to x *)
RoundToNearest(x) ==
    LET q == Quantum(x)
        lo == (x \div q) * q
        r == x - lo
    IN  IF 2 * r < q THEN lo
        ELSE IF 2 * r > q THEN lo + q
        ELSE IF (lo \div q) % 2 = 0 THEN lo ELSE lo + q

(* a + b, a - b and a * b as the host computes them *)
Plus(a, b) == RoundToNearest(a + b)
Minus(a, b) == RoundToNearest(a - b)
Times(a, b) == RoundToNearest(a * b)

(* catmullRomSpline at t = i/n, times 2*n^3 (the 0.5 and the powers of t  *)
(* are cleared so that the value is an integer)                            *)
catmullRomSpline(i, n, p0, p1, p2, p3) ==
      (2 * p1) * n * n * n
    + (p2 - p0) * i * n * n
    + (2 * p0 - 5 * p1 + 4 * p2 - p3) * i * i * n
    + (3 * p1 - p0 - 3 * p2 + p3) * i * i * i

getPointOnCatmullRom(i, n, p0, p1, p2, p3) ==
    [lat |-> catmullRomSpline(i, n, p0.lat, p1.lat, p2.lat, p3.lat),
     lng |-> catmullRomSpline(i, n, p0.lng, p1.lng, p2.lng, p3.lng)]

(* catmullRomSpline at an integral t, every operation rounded as the host *)
(* rounds it; the coordinates are even counts of the unit, which makes     *)
(* the final 0.5 * x exact, as it is in binary                             *)
catmullRomSplineRounded(t, p0, p1, p2, p3) ==
    LET t2 == Times(t, t)
        t3 == Times(t2, t)
        c1 == Plus(0 - p0, p2)
        c2 == Minus(Plus(Minus(Times(2, p0), Times(5, p1)), Times(4, p2)),
                    p3)
        c3 == Plus(Minus(Plus(0 - p0, Times(3, p1)), Times(3, p2)), p3)
    IN  Plus(Plus(Plus(Times(2, p1), Times(c1, t)), Times(c2, t2)),
             Times(c3, t3)) \div 2

getPointOnCatmullRomRounded(t, p0, p1, p2, p3) ==
    [lat |-> catmullRomSplineRounded(t, p0.lat, p1.lat, p2.lat, p3.lat),
     lng |-> catmullRomSplineRounded(t, p0.lng, p1.lng, p2.lng, p3.lng)]

(* catmullRomSplineDerivative at t = i/n, times 2*n^2 *)
catmullRomSplineDerivative(i, n, p0, p1, p2, p3) ==
      (p2 - p0) * n * n
    + 2 * (2 * p0 - 5 * p1 + 4 * p2 - p3) * i * n
    + 3 * (3 * p1 - p0 - 3 * p2 + p3) * i * i

(* tan(d - 0.5 degrees) * 10000 for d = 1..45 *)
TanTable ==
    <<  87,  262,  437,  612,  787,  963, 1139, 1317, 1495, 1673, 1853,
      2035, 2217, 2401, 2586, 2773, 2962, 3153, 3346, 3541, 3739, 3939,
      4142, 4348, 4557, 4770, 4986, 5206, 5430, 5658, 5890, 6128, 6371,
      6619, 6873, 7133, 7400, 7673, 7954, 8243, 8541, 8847, 9163, 9490,
      9827 >>

(* a and b >= 0 brought below 10000, keeping their ratio *)
ScaleDown(a, b) ==
    LET m == IF a > b THEN a ELSE b
        q == m \div 10000 + 1
    IN  [a |-> a \div q, b |-> b \div q]

(* atan(a / b) for 0 <= a <= b, b > 0, to the nearest degree *)
AtanDeg(a, b) ==
    Cardinality({d \in 1..45 : TanTable[d] * b <= a * 10000})

(* Math.atan2(dx, dy) as a compass angle in [0, 360), in 0.01 degree, to  *)
(* the nearest degree; atan2(0, 0) is 0                                    *)
Atan2(dx, dy) ==
    LET s == ScaleDown(Abs(dx), Abs(dy))
        phi == IF s.a = 0 /\ s.b = 0 THEN 0
               ELSE IF s.a <= s.b THEN AtanDeg(s.a, s.b)
               ELSE 90 - AtanDeg(s.b, s.a)
        deg == IF dx >= 0 /\ dy >= 0 THEN phi
               ELSE IF dx >= 0 THEN 180 - phi
               ELSE IF dy < 0 THEN 180 + phi
               ELSE 360 - phi
    IN  (deg % 360) * 100

(* getHeadingOnCatmullRom at t = i/n.  metersPerDegLng / metersPerDegLat  *)
(* is 1.0017 on the lattice.                                               *)
getHeadingOnCatmullRom(i, n, p0, p1, p2, p3) ==
    LET dLat == catmullRomSplineDerivative(i, n, p0.lat, p1.lat, p2.lat, p3.lat)
        dLng == catmullRomSplineDerivative(i, n, p0.lng, p1.lng, p2.lng, p3.lng)
        s == ScaleDown(Abs(dLat), Abs(dLng))
        dy_m == (IF dLat < 0 THEN 0 - s.a ELSE s.a) * 10000
        dx_m == (IF dLng < 0 THEN 0 - s.b ELSE s.b) * 10017
    IN  Atan2(dx_m, dy_m)

RECURSIVE CurveLengthFrom(_, _, _, _, _, _)
CurveLengthFrom(i, n, p0, p1, p2, p3) ==
    IF i > n THEN 0
    ELSE LET prevPoint == getPointOnCatmullRom(i - 1, n, p0, p1, p2, p3)
             currentPoint == getPointOnCatmullRom(i, n, p0, p1, p2, p3)
             dLat == currentPoint.lat - prevPoint.lat
             dLng == currentPoint.lng - prevPoint.lng
         IN  Sqrt(dLat * dLat + dLng * dLng)
             + CurveLengthFrom(i + 1, n, p0, p1, p2, p3)

(* calculateCurveLength: the 20 chords, summed in units of 1/(2*20^3) of a *)
(* step and converted to metres                                            *)
curveLengthOf(p0, p1, p2, p3) ==
    LET n == CurveSegments
    IN  (CurveLengthFrom(1, n, p0, p1, p2, p3) * MetresPerStep)
            \div (2 * n * n * n)

(* The lengths of all curves over lattice points, computed once. *)
CurveLengthTable ==
    [cp \in GeoPoints \X GeoPoints \X GeoPoints \X GeoPoints |->
        curveLengthOf(cp[1], cp[2], cp[3], cp[4])] @@ [x \in {} |-> 0]

calculateCurveLength(p0, p1, p2, p3) ==
    CurveLengthTable[<<[lat |-> p0.lat, lng |-> p0.lng],
                       [lat |-> p1.lat, lng |-> p1.lng],
                       [lat |-> p2.lat, lng |-> p2.lng],
                       [lat |-> p3.lat, lng |-> p3.lng]>>]

(* calculateTurnRadius: [infinite, metres].  X and Y are twice the first   *)
(* derivatives in metres, so radius = (X^2+Y^2)^1.5 / (4*|X*y'' - Y*x''|). *)
calculateTurnRadius(p0, p1, p2, p3) ==
    LET X == (p2.lng - p0.lng) * MetresPerStep
        Y == (p2.lat - p0.lat) * MetresPerStep
        x_double_prime ==
            (2 * p0.lng - 5 * p1.lng + 4 * p2.lng - p3.lng) * MetresPerStep
        y_double_prime ==
            (2 * p0.lat - 5 * p1.lat + 4 * p2.lat - p3.lat) * MetresPerStep
        S == X * X + Y * Y
        numerator == S * Sqrt(S)
        denominator == 4 * Abs(X * y_double_prime - Y * x_double_prime)
    IN  IF denominator = 0
        THEN [infinite |-> TRUE, metres |-> 0]
        ELSE [infinite |-> FALSE, metres |-> numerator \div denominator]

-----------------------------------------------------------------------------
(* The leg builder.  The code's leg index i (from 0) is k - 1 here: TLA+   *)
(* sequences start at 1, so waypoints[i] is wps[k] and waypoints[i+1] is   *)
(* wps[k + 1].                                                             *)

Pt(w) == [lat |-> w.lat, lng |-> w.lng]

(* waypoints[j]?.propulsionDirection ?? PropulsionDirection.FORWARD *)
PropulsionOrForward(wps, k) ==
    IF k \in 1..Len(wps) /\ wps[k].propulsionDirection # undefined
    THEN wps[k].propulsionDirection
    ELSE FORWARD

legPropulsion(wps, k) == PropulsionOrForward(wps, k)
(* variant: a pivot wherever the waypoint's direction is not the default *)
legPivotTime_EveryChange(wps, pivotDur, k) ==
    IF legPropulsion(wps, k) # PropulsionOrForward(wps, k - 1)
    THEN pivotDur
    ELSE 0

legPivotTime(wps, pivotDur, k) ==
    IF k > 1 /\ legPropulsion(wps, k) # PropulsionOrForward(wps, k - 1)
    THEN pivotDur
    ELSE 0

(* p0, p1, p2, p3 of leg k as calculateTrajectory chooses them *)
legControlPoints(wps, pivotDur, k) ==
    LET start == wps[k]
        end == wps[k + 1]
        pivotTime == legPivotTime(wps, pivotDur, k)
        nextPropulsion == PropulsionOrForward(wps, k + 1)
    IN  [p0 |-> IF k > 1 /\ pivotTime = 0 THEN wps[k - 1] ELSE start,
         p1 |-> start,
         p2 |-> end,
         p3 |-> IF k + 2 <= Len(wps) /\ nextPropulsion = legPropulsion(wps, k)
                THEN wps[k + 2] ELSE end]

(* courseOut - courseIn, folded once at +/-180 degrees *)
legTurnAngle(courseIn, courseOut) ==
    LET angle == courseOut - courseIn
        a1 == IF angle > HalfCircle THEN angle - FullCircle ELSE angle
    IN  IF a1 < 0 - HalfCircle THEN a1 + FullCircle ELSE a1
(* variant: the threshold itself already counts as a turn *)
legCommand_Inclusive(k, previousCourse, course) ==
    IF k = 1
    THEN [command |-> START, turnAngle |-> 0]
    ELSE LET turnAngle == legTurnAngle(previousCourse, course)
         IN  [command |-> IF Abs(turnAngle) >= TURN_THRESHOLD
                          THEN (IF turnAngle > 0 THEN PORT ELSE STARBOARD)
                          ELSE STRAIGHT,
              turnAngle |-> turnAngle]

(* command and turnAngle of leg k *)
legCommand(k, previousCourse, course) ==
    IF k = 1
    THEN [command |-> START, turnAngle |-> 0]
    ELSE LET turnAngle == legTurnAngle(previousCourse, course)
         IN  [command |-> IF Abs(turnAngle) > TURN_THRESHOLD
                          THEN (IF turnAngle > 0 THEN PORT ELSE STARBOARD)
                          ELSE STRAIGHT,
              turnAngle |-> turnAngle]
(* variant: the radius is checked on pivoting legs too *)
legTurnRadiusViolation_IgnoresPivot(command, pivotTime, cp, theShip) ==
    IF command \in {PORT, STARBOARD}
    THEN LET r == calculateTurnRadius(cp.p0, cp.p1, cp.p2, cp.p3)
         IN  ~r.infinite /\ r.metres < theShip.turningRadius
    ELSE FALSE

legTurnRadiusViolation(command, pivotTime, cp, theShip) ==
    IF command \in {PORT, STARBOARD} /\ pivotTime = 0
    THEN LET r == calculateTurnRadius(cp.p0, cp.p1, cp.p2, cp.p3)
         IN  ~r.infinite /\ r.metres < theShip.turningRadius
    ELSE FALSE

(* moveTime = speedMps > 0 ? curveDistance / speedMps : 0, in seconds;    *)
(* speedMps is kept in mm/s                                                *)
legMoveTime_NonZero(curveDistance, speedKnots) ==
    LET speedMmps == (speedKnots * KnotMicroMps) \div 1000
    IN  IF speedMmps # 0 THEN (curveDistance * 1000) \div speedMmps ELSE 0

legMoveTime(curveDistance, speedKnots) ==
    LET speedMmps == (speedKnots * KnotMicroMps) \div 1000
    IN  IF speedMmps > 0 THEN (curveDistance * 1000) \div speedMmps ELSE 0

(* The drift branch without an active forcing: the predicted position    *)
(* advances by the leg's own displacement.                                 *)
legPredictedEnd(env, start, end, currentPredictedPosition) ==
    IF env.driftEnabled
    THEN [lat |-> Plus(currentPredictedPosition.lat,
                       Minus(end.lat, start.lat)),
          lng |-> Plus(currentPredictedPosition.lng,
                       Minus(end.lng, start.lng))]
    ELSE NoPoint

(* knots to mm/s: speed * 0.514444 *)
KnotsToMmps(knots) == (knots * KnotMicroMps) \div 1000

(* variant: the forcing sets toward the direction it is named after *)
forceVector_Along(speedMmps, direction) ==
    [vx |-> MulDiv(speedMmps, Sin(direction), 10000),
     vy |-> MulDiv(speedMmps, Cos(direction), 10000)]

(* the velocity (mm/s) of a forcing of the given speed (mm/s) that comes  *)
(* FROM `direction`                                                        *)
forceVector(speedMmps, direction) ==
    LET forceDirection == (direction + HalfCircle) % FullCircle
    IN  [vx |-> MulDiv(speedMmps, Sin(forceDirection), 10000),
         vy |-> MulDiv(speedMmps, Cos(forceDirection), 10000)]

(* destinationPoint on the lattice: `distance` metres along `bearing`,    *)
(* to the nearest lattice step                                             *)
destinationPoint(point, distance, bearing) ==
    [lat |-> point.lat
             + MulDiv(MulDiv(distance, Cos(bearing), 10000), 1, MetresPerStep),
     lng |-> point.lng
             + MulDiv(MulDiv(distance, Sin(bearing), 10000), 1, MetresPerStep)]

(* variant: a sine beyond 1 is clamped to a quarter turn *)
legCourseCorrection_Clamped(speedMmps, course, totalDriftVx, totalDriftVy) ==
    LET totalDriftSpeedMmps ==
            Sqrt(totalDriftVx * totalDriftVx + totalDriftVy * totalDriftVy)
        totalDriftAngle == Atan2(totalDriftVx, totalDriftVy)
        sineNum == totalDriftSpeedMmps * Sin(course - totalDriftAngle)
        sineDen == speedMmps * 10000
        s == ScaleDown(Abs(sineNum), sineDen)
        cca == IF Abs(sineNum) <= sineDen THEN AsinDeg(s.a, s.b) ELSE 9000
    IN  Number(IF sineNum < 0 THEN 0 - cca ELSE cca)

(* the course correction angle, for speedMps > 0 *)
legCourseCorrection(speedMmps, course, totalDriftVx, totalDriftVy) ==
    LET totalDriftSpeedMmps ==
            Sqrt(totalDriftVx * totalDriftVx + totalDriftVy * totalDriftVy)
        totalDriftAngle == Atan2(totalDriftVx, totalDriftVy)
        angleDiff == course - totalDriftAngle
        sineNum == totalDriftSpeedMmps * Sin(angleDiff)
        sineDen == speedMmps * 10000
    IN  IF Abs(sineNum) <= sineDen
        THEN LET s == ScaleDown(Abs(sineNum), sineDen)
                 cca == AsinDeg(s.a, s.b)
             IN  Number(IF sineNum < 0 THEN 0 - cca ELSE cca)
        ELSE NaN

(* The drift calculations of one leg: sog in 0.001 knot, cogCourse and    *)
(* courseCorrectionAngle in 0.01 degree.                                   *)
legDrift(env, start, end, course, speedKnots, moveTime, currentPredictedPosition) ==
    IF ~env.driftEnabled
    THEN [sog |-> NoNumber, cogCourse |-> NoNumber, predictedEnd |-> NoPoint,
          courseCorrectionAngle |-> NoNumber]
    ELSE IF env.current.speed > 0 \/ env.wind.speed > 0
    THEN LET speedMmps == KnotsToMmps(speedKnots)
             shipVx == MulDiv(speedMmps, Sin(course), 10000)
             shipVy == MulDiv(speedMmps, Cos(course), 10000)
             currentV == IF env.current.speed > 0
                         THEN forceVector(KnotsToMmps(env.current.speed),
                                          env.current.direction)
                         ELSE [vx |-> 0, vy |-> 0]
             windV == IF env.wind.speed > 0
                      THEN forceVector((KnotsToMmps(env.wind.speed) * 3) \div 100,
                                       env.wind.direction)
                      ELSE [vx |-> 0, vy |-> 0]
             totalDriftVx == currentV.vx + windV.vx
             totalDriftVy == currentV.vy + windV.vy
             sogVx == shipVx + totalDriftVx
             sogVy == shipVy + totalDriftVy
             sogMmps == Sqrt(sogVx * sogVx + sogVy * sogVy)
             cogCourse == Atan2(sogVx, sogVy)
         IN  [sog |-> Number(MulDiv(sogMmps, 10000, 5144)),
              cogCourse |-> Number(cogCourse),
              predictedEnd |->
                  destinationPoint(currentPredictedPosition,
                                   (sogMmps * moveTime) \div 1000, cogCourse),
              courseCorrectionAngle |->
                  IF speedMmps > 0
                  THEN legCourseCorrection(speedMmps, course,
                                           totalDriftVx, totalDriftVy)
                  ELSE NoNumber]
    ELSE [sog |-> NoNumber, cogCourse |-> NoNumber,
          predictedEnd |->
              legPredictedEnd(env, start, end, currentPredictedPosition),
          courseCorrectionAngle |-> NoNumber]

(* the entry pushed for one leg, from the values the loop body computed *)
legEntry(start, end, propulsion, pivotTime, course, tangentAtStart, tangentAtEnd, curveDistance, speedKnots, moveTime, cmd, turnRadiusViolation, drift) ==
    [id |-> start.id,
     start |-> start,
     end |-> end,
     distance |-> getDistance(start, end),
     curveDistance |-> curveDistance,
     course |-> course,
     startHeading |-> IF propulsion = ASTERN
                      THEN (tangentAtStart + HalfCircle) % FullCircle
                      ELSE tangentAtStart,
     endHeading |-> IF propulsion = ASTERN
                    THEN (tangentAtEnd + HalfCircle) % FullCircle
                    ELSE tangentAtEnd,
     command |-> cmd.command,
     turnAngle |-> cmd.turnAngle,
     turnRadiusViolation |-> turnRadiusViolation,
     speed |-> speedKnots,
     time |-> moveTime + pivotTime,
     pivotTime |-> pivotTime,
     propulsion |-> propulsion,
     sog |-> drift.sog,
     cogCourse |-> drift.cogCourse,
     predictedEnd |-> drift.predictedEnd,
     courseCorrectionAngle |-> drift.courseCorrectionAngle]

buildLeg(wps, theShip, pivotDur, env, k, previousCourse, currentPredictedPosition) ==
    LET start == wps[k]
        end == wps[k + 1]
        propulsion == legPropulsion(wps, k)
        pivotTime == legPivotTime(wps, pivotDur, k)
        course == getBearing(start, end)
        cp == legControlPoints(wps, pivotDur, k)
        curveDistance == calculateCurveLength(cp.p0, cp.p1, cp.p2, cp.p3)
        tangentAtStart == getBearing(cp.p0, cp.p2)
        tangentAtEnd == getBearing(cp.p1, cp.p3)
        speedKnots == IF start.speedToNext # NoSpeed
                      THEN start.speedToNext ELSE DefaultSpeed
        moveTime == legMoveTime(curveDistance, speedKnots)
        cmd == legCommand(k, previousCourse, course)
    IN  legEntry(start, end, propulsion, pivotTime, course, tangentAtStart,
                 tangentAtEnd, curveDistance, speedKnots, moveTime, cmd,
                 legTurnRadiusViolation(cmd.command, pivotTime, cp, theShip),
                 legDrift(env, start, end, course, speedKnots, moveTime,
                          currentPredictedPosition))

RECURSIVE buildLegsFrom(_, _, _, _, _, _, _)
(* variant: every leg's prediction starts from the same running position *)
pushLeg_FixedOrigin(wps, theShip, pivotDur, env, k, leg, currentPredictedPosition) ==
    <<leg>> \o
    buildLegsFrom(wps, theShip, pivotDur, env, k + 1, leg.course,
                  currentPredictedPosition)

(* legs.push(leg), then the next iteration with previousCourse and the    *)
(* running predicted position taken from the leg just pushed               *)
pushLeg(wps, theShip, pivotDur, env, k, leg, currentPredictedPosition) ==
    <<leg>> \o
    buildLegsFrom(wps, theShip, pivotDur, env, k + 1, leg.course,
                  IF leg.predictedEnd # NoPoint
                  THEN leg.predictedEnd
                  ELSE currentPredictedPosition)

buildLegsFrom(wps, theShip, pivotDur, env, k, previousCourse, currentPredictedPosition) ==
    IF k > Len(wps) - 1 THEN << >>
    ELSE pushLeg(wps, theShip, pivotDur, env, k,
                 buildLeg(wps, theShip, pivotDur, env, k,
                          previousCourse, currentPredictedPosition),
                 currentPredictedPosition)
(* variant: the terminal leg repeats the last real leg unchanged *)
terminalLeg_RepeatsLast(wps, realLegs) ==
    LET lastWaypoint == wps[Len(wps)]
        finalLeg == realLegs[Len(realLegs)]
    IN  [finalLeg EXCEPT !.id = lastWaypoint.id,
                         !.start = lastWaypoint,
                         !.end = lastWaypoint,
                         !.distance = 0,
                         !.curveDistance = 0,
                         !.command = END,
                         !.turnAngle = 0,
                         !.turnRadiusViolation = FALSE,
                         !.speed = 0,
                         !.time = 0,
                         !.pivotTime = 0,
                         !.predictedEnd = NoPoint]

(* the entry appended after the loop *)
terminalLeg(wps, realLegs) ==
    LET lastWaypoint == wps[Len(wps)]
        hasFinal == Len(realLegs) > 0
        finalLeg == realLegs[Len(realLegs)]
    IN  [id |-> lastWaypoint.id,
         start |-> lastWaypoint,
         end |-> lastWaypoint,
         distance |-> 0,
         curveDistance |-> 0,
         course |-> IF hasFinal THEN finalLeg.course ELSE 0,
         startHeading |-> IF hasFinal THEN finalLeg.endHeading ELSE 0,
         endHeading |-> IF hasFinal THEN finalLeg.endHeading ELSE 0,
         command |-> END,
         turnAngle |-> 0,
         turnRadiusViolation |-> FALSE,
         speed |-> 0,
         time |-> 0,
         pivotTime |-> 0,
         propulsion |-> IF hasFinal THEN finalLeg.propulsion ELSE FORWARD,
         sog |-> NoNumber,
         cogCourse |-> NoNumber,
         predictedEnd |-> NoPoint,
         courseCorrectionAngle |-> NoNumber]

(* the legs of the loop followed by the terminal entry *)
withTerminalLeg(wps, realLegs) == Append(realLegs, terminalLeg(wps, realLegs))

(* variant: the running predicted position is kept from the last call *)
initialPredictedPosition_Kept(wps) ==
    IF Len(trajectoryLegs) >= 2
       /\ trajectoryLegs[Len(trajectoryLegs) - 1].predictedEnd # NoPoint
    THEN trajectoryLegs[Len(trajectoryLegs) - 1].predictedEnd
    ELSE Pt(wps[1])

(* where the running predicted position starts *)
initialPredictedPosition(wps) == Pt(wps[1])
(* variant: no terminal leg is appended *)
calculateTrajectory_RealLegsOnly(wps, theShip, pivotDur, env) ==
    IF Len(wps) < 2 THEN << >>
    ELSE buildLegsFrom(wps, theShip, pivotDur, env, 1, 0,
                       initialPredictedPosition(wps))

calculateTrajectory(wps, theShip, pivotDur, env) ==
    IF Len(wps) < 2 THEN << >>
    ELSE withTerminalLeg(wps, buildLegsFrom(wps, theShip, pivotDur, env, 1, 0,
                                            initialPredictedPosition(wps)))

-----------------------------------------------------------------------------
(* The playback interpolator (useAnimation.ts).                            *)

(* pos_p0..pos_p3 / head_p0..head_p3 of calculateAnimationState for leg k, *)
(* taken from `path` (the predicted path points, or the waypoints)         *)
animControlPoints(leg, wps, path, k) ==
    LET prevPropulsion == PropulsionOrForward(wps, k - 1)
        nextPropulsion == PropulsionOrForward(wps, k + 1)
    IN  [p0 |-> IF k > 1 /\ leg.propulsion = prevPropulsion
                THEN path[k - 1] ELSE path[k],
         p1 |-> path[k],
         p2 |-> path[k + 1],
         p3 |-> IF k + 2 <= Len(path) /\ nextPropulsion = leg.propulsion
                THEN path[k + 2] ELSE path[k + 1]]

(* predictedPathPoints: the first waypoint followed by the legs'          *)
(* predicted ends when every real leg has one, the waypoints otherwise     *)
predictedPathPoints(legs, wps) ==
    LET predictedEnds ==
            SelectSeq([k \in 1..Len(legs) |-> legs[k].predictedEnd],
                      LAMBDA p : p # NoPoint)
    IN  IF Len(wps) = 0 \/ Len(predictedEnds) = 0 THEN wps
        ELSE IF Len(predictedEnds) = Len(wps) - 1
             THEN <<wps[1]>> \o predictedEnds
             ELSE wps

RECURSIVE Gcd(_, _)
Gcd(a, b) == IF b = 0 THEN a ELSE Gcd(b, a % b)

(* a quotient of two times as a fraction in lowest terms *)
Fraction(num, den) ==
    LET g == Gcd(num, den)
    IN  [num |-> num \div g, den |-> den \div g]

NoState == [none |-> TRUE]

(* variant: the walk accepts a leg only when it ends at or after           *)
(* currentTime                                                             *)
RECURSIVE selectLeg_NoLastLeg(_, _, _, _)
selectLeg_NoLastLeg(legs, currentTime, k, accumulatedTime) ==
    IF k > Len(legs) THEN [found |-> FALSE]
    ELSE IF legs[k].command = END
         THEN selectLeg_NoLastLeg(legs, currentTime, k + 1, accumulatedTime)
         ELSE LET legEndTime == accumulatedTime + legs[k].time * 1000
              IN  IF currentTime <= legEndTime
                  THEN [found |-> TRUE, k |-> k,
                        timeIntoLeg |-> currentTime - accumulatedTime]
                  ELSE selectLeg_NoLastLeg(legs, currentTime, k + 1,
                                           legEndTime)

(* the leg walk of calculateAnimationState, times in milliseconds *)
RECURSIVE selectLeg(_, _, _, _)
selectLeg(legs, currentTime, k, accumulatedTime) ==
    IF k > Len(legs) THEN [found |-> FALSE]
    ELSE IF legs[k].command = END
         THEN selectLeg(legs, currentTime, k + 1, accumulatedTime)
         ELSE LET legEndTime == accumulatedTime + legs[k].time * 1000
              IN  IF currentTime <= legEndTime \/ k = Len(legs) - 1
                  THEN [found |-> TRUE, k |-> k,
                        timeIntoLeg |-> currentTime - accumulatedTime]
                  ELSE selectLeg(legs, currentTime, k + 1, legEndTime)

(* (cca && !isNaN(cca)) ? cca : 0 *)
legCorrection_Raw(leg) == leg.courseCorrectionAngle

legCorrection(leg) ==
    IF leg.courseCorrectionAngle = NoNumber \/ leg.courseCorrectionAngle = NaN
       \/ leg.courseCorrectionAngle = Number(0)
    THEN Number(0)
    ELSE leg.courseCorrectionAngle

(* heading + correction in the arithmetic of the host: an absent or       *)
(* not-a-number operand makes the sum not-a-number                         *)
plusCorrection(heading, correction) ==
    IF correction = NoNumber \/ correction = NaN THEN NaN
    ELSE Number(heading + correction.value)

(* (x + 360) % 360 of a sum that may be not-a-number *)
wrapHeading(sum) ==
    IF sum = NaN THEN NaN ELSE Number((sum.value + FullCircle) % FullCircle)

(* variant: the pivot turns through the plain difference of the headings *)
pivotState_NoFold(legs, path, k, timeIntoLeg) ==
    LET leg == legs[k]
        startPivotHeading == IF k > 1 THEN legs[k - 1].endHeading
                             ELSE leg.startHeading
        angleDiff == leg.startHeading - startPivotHeading
    IN  [position |-> [lat |-> path[k].lat, lng |-> path[k].lng, scale |-> 1],
         heading |-> Number(startPivotHeading
                            + (angleDiff * timeIntoLeg)
                                  \div (leg.pivotTime * 1000)),
         speed |-> 0]

(* the pivoting phase; a position is [lat, lng, scale], standing for the  *)
(* point (lat / scale, lng / scale)                                        *)
pivotState(legs, path, k, timeIntoLeg) ==
    LET leg == legs[k]
        startPivotHeading == IF k > 1 THEN legs[k - 1].endHeading
                             ELSE leg.startHeading
        endPivotHeading == leg.startHeading
        angleDiff == legTurnAngle(startPivotHeading, endPivotHeading)
    IN  [position |-> [lat |-> path[k].lat, lng |-> path[k].lng, scale |-> 1],
         heading |-> Number(startPivotHeading
                            + (angleDiff * timeIntoLeg)
                                  \div (leg.pivotTime * 1000)),
         speed |-> 0]

(* variant: the progress along the leg is counted from the start of the  *)
(* pivot                                                                   *)
moveState_FromLegStart(legs, wps, path, k, timeIntoLeg) ==
    LET leg == legs[k]
        moveTime == (leg.time - leg.pivotTime) * 1000
        timeIntoMove == timeIntoLeg
        legProgress == IF moveTime > 0 THEN Fraction(timeIntoMove, moveTime)
                       ELSE [num |-> 1, den |-> 1]
        pos == animControlPoints(leg, wps, path, k)
        head == animControlPoints(leg, wps, wps, k)
        position == getPointOnCatmullRom(legProgress.num, legProgress.den,
                                         pos.p0, pos.p1, pos.p2, pos.p3)
        tangent == getHeadingOnCatmullRom(legProgress.num, legProgress.den,
                                          head.p0, head.p1, head.p2, head.p3)
        intendedHeading == IF leg.propulsion = ASTERN
                           THEN (tangent + HalfCircle) % FullCircle
                           ELSE tangent
    IN  [position |-> [lat |-> position.lat, lng |-> position.lng,
                       scale |-> 2 * legProgress.den * legProgress.den
                                   * legProgress.den],
         heading |-> wrapHeading(plusCorrection(intendedHeading,
                                                legCorrection(leg))),
         speed |-> leg.speed]

(* the movement phase *)
moveState(legs, wps, path, k, timeIntoLeg) ==
    LET leg == legs[k]
        moveTime == (leg.time - leg.pivotTime) * 1000
        timeIntoMove == timeIntoLeg - leg.pivotTime * 1000
        legProgress == IF moveTime > 0 THEN Fraction(timeIntoMove, moveTime)
                       ELSE [num |-> 1, den |-> 1]
        pos == animControlPoints(leg, wps, path, k)
        head == animControlPoints(leg, wps, wps, k)
        position == getPointOnCatmullRom(legProgress.num, legProgress.den,
                                         pos.p0, pos.p1, pos.p2, pos.p3)
        tangent == getHeadingOnCatmullRom(legProgress.num, legProgress.den,
                                          head.p0, head.p1, head.p2, head.p3)
        intendedHeading == IF leg.propulsion = ASTERN
                           THEN (tangent + HalfCircle) % FullCircle
                           ELSE tangent
    IN  [position |-> [lat |-> position.lat, lng |-> position.lng,
                       scale |-> 2 * legProgress.den * legProgress.den
                                   * legProgress.den],
         heading |-> wrapHeading(plusCorrection(intendedHeading,
                                                legCorrection(leg))),
         speed |-> leg.speed]

(* variant: the fallback heading leaves the correction out *)
fallbackState_Uncorrected(legs, path) ==
    IF Len(legs) >= 2
    THEN LET lastLeg == legs[Len(legs) - 1]
             finalPosition == path[Len(path)]
         IN  [position |-> [lat |-> finalPosition.lat,
                            lng |-> finalPosition.lng, scale |-> 1],
              heading |-> Number(lastLeg.endHeading),
              speed |-> 0]
    ELSE NoState

(* the fallback after the leg walk *)
fallbackState(legs, path) ==
    IF Len(legs) >= 2
    THEN LET lastLeg == legs[Len(legs) - 1]
             finalPosition == path[Len(path)]
         IN  [position |-> [lat |-> finalPosition.lat,
                            lng |-> finalPosition.lng, scale |-> 1],
              heading |-> wrapHeading(plusCorrection(lastLeg.endHeading,
                                                     legCorrection(lastLeg))),
              speed |-> 0]
    ELSE NoState

(* variant: the time into the leg is counted from the start of the plan *)
calculateAnimationState_FromZero(legs, wps, currentTime) ==
    LET path == predictedPathPoints(legs, wps)
        sel == selectLeg(legs, currentTime, 1, 0)
    IN  IF ~sel.found THEN fallbackState(legs, path)
        ELSE IF currentTime < legs[sel.k].pivotTime * 1000
             THEN pivotState(legs, path, sel.k, currentTime)
             ELSE moveState(legs, wps, path, sel.k, currentTime)

(* calculateAnimationState(progress, totalDuration) over the legs and     *)
(* waypoints of the render that created it; currentTime = progress *       *)
(* totalDuration is passed in milliseconds                                 *)
calculateAnimationState(legs, wps, currentTime) ==
    LET path == predictedPathPoints(legs, wps)
        sel == selectLeg(legs, currentTime, 1, 0)
    IN  IF ~sel.found THEN fallbackState(legs, path)
        ELSE IF sel.timeIntoLeg < legs[sel.k].pivotTime * 1000
             THEN pivotState(legs, path, sel.k, sel.timeIntoLeg)
             ELSE moveState(legs, wps, path, sel.k, sel.timeIntoLeg)

(* correction || 0 *)
orZero(correction) ==
    IF correction = NoNumber \/ correction = NaN \/ correction = Number(0)
    THEN Number(0)
    ELSE correction

(* the heading of the static ship drawn at the start of leg index *)
correctedHeading(legs, index) ==
    LET leg == legs[index]
        finalLegState == IF index > 1 THEN legs[index - 1] ELSE leg
        heading == IF leg.command = END THEN finalLegState.endHeading
                   ELSE leg.startHeading
        correction == IF leg.command = END
                      THEN finalLegState.courseCorrectionAngle
                      ELSE leg.courseCorrectionAngle
    IN  plusCorrection(heading, orZero(correction))

-----------------------------------------------------------------------------
(* The plan store (App.tsx) and the drag preview (PlanningCanvas.tsx).     *)
(* Every handler ends in a render, in which useTrajectoryCalculations      *)
(* recomputes the legs from the new inputs.                                *)

NoPreview == [active |-> FALSE]

(* A plan file written earlier (its id is a Date.now() value of before    *)
(* this run, below every id of this run), by a version that stored no     *)
(* speed and no propulsion with a waypoint.                                *)
SavedPlans ==
    { [waypoints |->
          << [id |-> 0 - 1, lat |-> 0, lng |-> 0,
              speedToNext |-> NoSpeed, propulsionDirection |-> undefined] >>,
       ship |-> DefaultShip] }

useTrajectoryCalculations(wps, theShip, pivotDur, env) ==
    calculateTrajectory(wps, theShip, pivotDur, env)

Rendered(wps, theShip, pivotDur, env) ==
    /\ waypoints' = wps
    /\ ship' = theShip
    /\ pivotDuration' = pivotDur
    /\ environmentalFactors' = env
    /\ trajectoryLegs' = useTrajectoryCalculations(wps, theShip, pivotDur, env)

WaypointIds == {waypoints[j].id : j \in 1..Len(waypoints)}

(* t is what Date.now() returns to this call: never less than what it    *)
(* returned before                                                         *)
handleAddWaypoint(point, t) ==
    /\ Len(waypoints) < MaxWaypoints
    /\ t >= clock
    /\ t <= MaxClock
    /\ clock' = t
    /\ Rendered(Append(waypoints,
                       [id |-> t, lat |-> point.lat, lng |-> point.lng,
                        speedToNext |-> DefaultSpeed,
                        propulsionDirection |-> FORWARD]),
                ship, pivotDuration, environmentalFactors)
    /\ UNCHANGED <<preview, nonPlanVars>>

handleUpdateWaypoint(id, point) ==
    /\ Rendered([j \in 1..Len(waypoints) |->
                    IF waypoints[j].id = id
                    THEN [waypoints[j] EXCEPT !.lat = point.lat, !.lng = point.lng]
                    ELSE waypoints[j]],
                ship, pivotDuration, environmentalFactors)
    /\ UNCHANGED clock

(* marker 'dragend': the preview is dropped and the new position stored *)
MarkerDragEnd(id, point) ==
    /\ id \in WaypointIds
    /\ handleUpdateWaypoint(id, point)
    /\ preview' = NoPreview
    /\ UNCHANGED nonPlanVars

(* marker 'drag': a preview is computed from a copy of the waypoints *)
MarkerDrag(id, point) ==
    /\ id \in WaypointIds
    /\ LET newWaypoints ==
               [j \in 1..Len(waypoints) |->
                   IF waypoints[j].id = id
                   THEN [waypoints[j] EXCEPT !.lat = point.lat, !.lng = point.lng]
                   ELSE waypoints[j]]
       IN  preview' = [active |-> TRUE,
                       inputs |-> <<ship, pivotDuration, environmentalFactors>>,
                       newWaypoints |-> newWaypoints,
                       previewLegs |-> calculateTrajectory(newWaypoints, ship,
                                           pivotDuration, environmentalFactors)]
    /\ UNCHANGED <<waypoints, ship, pivotDuration, environmentalFactors,
                   clock, trajectoryLegs, nonPlanVars>>

RECURSIVE FilterOut(_, _)
FilterOut(wps, id) ==
    IF wps = << >> THEN << >>
    ELSE IF Head(wps).id = id THEN FilterOut(Tail(wps), id)
         ELSE <<Head(wps)>> \o FilterOut(Tail(wps), id)

handleDeleteWaypoint(id) ==
    /\ id \in WaypointIds
    /\ Rendered(FilterOut(waypoints, id), ship, pivotDuration,
                environmentalFactors)
    /\ UNCHANGED <<clock, preview, nonPlanVars>>

handleSpeedChange(waypointId, speed) ==
    /\ waypointId \in WaypointIds
    /\ Rendered([j \in 1..Len(waypoints) |->
                    IF waypoints[j].id = waypointId
                    THEN [waypoints[j] EXCEPT !.speedToNext = speed]
                    ELSE waypoints[j]],
                ship, pivotDuration, environmentalFactors)
    /\ UNCHANGED <<clock, preview, nonPlanVars>>

handlePropulsionChange(waypointId, propulsion) ==
    /\ waypointId \in WaypointIds
    /\ Rendered([j \in 1..Len(waypoints) |->
                    IF waypoints[j].id = waypointId
                    THEN [waypoints[j] EXCEPT !.propulsionDirection = propulsion]
                    ELSE waypoints[j]],
                ship, pivotDuration, environmentalFactors)
    /\ UNCHANGED <<clock, preview, nonPlanVars>>

handleClear ==
    /\ Len(waypoints) > 0
    /\ Rendered(<< >>, DefaultShip, pivotDuration, environmentalFactors)
    /\ UNCHANGED <<clock, preview, nonPlanVars>>

handleImportPlan(plan) ==
    /\ Rendered(plan.waypoints, plan.ship, pivotDuration, environmentalFactors)
    /\ UNCHANGED <<clock, preview, nonPlanVars>>

handleSaveSettings(newPivotDuration) ==
    /\ Rendered(waypoints, ship, newPivotDuration, environmentalFactors)
    /\ UNCHANGED <<clock, preview, nonPlanVars>>

setShip(turningRadius) ==
    /\ Rendered(waypoints, [ship EXCEPT !.turningRadius = turningRadius],
                pivotDuration, environmentalFactors)
    /\ UNCHANGED <<clock, preview, nonPlanVars>>

setEnvironmentalFactors(env) ==
    /\ Rendered(waypoints, ship, pivotDuration, env)
    /\ UNCHANGED <<clock, preview, nonPlanVars>>

-----------------------------------------------------------------------------
(* The plan specification: the application starts with an empty plan and   *)
(* the user edits it.                                                      *)

NoTurn == [known |-> FALSE]
NoCase == [known |-> FALSE]

PlanInit ==
    /\ waypoints = << >>
    /\ ship = DefaultShip
    /\ pivotDuration = DefaultPivotDuration
    /\ environmentalFactors = NoDrift
    /\ clock = 0
    /\ trajectoryLegs = << >>
    /\ preview = NoPreview

NoHold == [active |-> FALSE]

AnimInit ==
    /\ isAnimating = FALSE
    /\ closureIsAnimating = FALSE
    /\ animationState = NoState
    /\ animationFrameId = 0
    /\ animationData = [lastTimestamp |-> 0, scaledElapsed |-> 0]
    /\ playbackSpeed = 1
    /\ frames = {}
    /\ timers = {}
    /\ now = 0
    /\ nextFrameId = 1
    /\ session = 0
    /\ cancelled = {}
    /\ stopped = FALSE
    /\ hold = NoHold
    /\ sessionTicks = << >>

Init ==
    /\ PlanInit
    /\ turnCase = NoTurn
    /\ turnResult = NoTurn
    /\ funCase = NoCase
    /\ funResult = NoCase
    /\ AnimInit

Next ==
    \/ \E point \in GeoPoints : handleAddWaypoint(point, clock + 1)
    \/ \E id \in WaypointIds, point \in GeoPoints : MarkerDragEnd(id, point)
    \/ \E id \in WaypointIds : handleDeleteWaypoint(id)
    \/ \E id \in WaypointIds, propulsion \in Propulsions :
           handlePropulsionChange(id, propulsion)
    \/ handleClear
    \/ \E plan \in SavedPlans : handleImportPlan(plan)
    \/ \E d \in PivotDurations : handleSaveSettings(d)
    \/ \E r \in TurningRadii : setShip(r)

vars == <<planVars, nonPlanVars>>

Spec == Init /\ [][Next]_vars

(* The drag specification: waypoints are placed and dragged, with and     *)
(* without drift; every 'drag' event computes a preview.                   *)
PreviewNext ==
    \/ \E point \in GeoPoints : handleAddWaypoint(point, clock + 1)
    \/ \E id \in WaypointIds, point \in GeoPoints : MarkerDrag(id, point)
    \/ \E id \in WaypointIds, point \in GeoPoints : MarkerDragEnd(id, point)
    \/ \E env \in Environments : setEnvironmentalFactors(env)

SpecPreview == Init /\ [][PreviewNext]_vars

(* The classification specification: legCommand is applied to a leg      *)
(* index and a pair of courses in [0, 360) degrees.                        *)
Courses == {0, 499, 500, 501, 17500, 18000, 18001, 18501, 35500, 35999}
LegIndexes == 1..MaxWaypoints

TurnInit ==
    /\ PlanInit
    /\ turnCase \in [known : {TRUE}, k : LegIndexes,
                     previousCourse : Courses, course : Courses]
    /\ turnResult = NoTurn
    /\ funCase = NoCase
    /\ funResult = NoCase
    /\ AnimInit

ClassifyTurn ==
    /\ turnResult = NoTurn
    /\ turnResult' = [known |-> TRUE,
                      out |-> legCommand(turnCase.k, turnCase.previousCourse,
                                         turnCase.course)]
    /\ UNCHANGED <<planVars, turnCase, funVars, animVars>>

SpecTurn == TurnInit /\ [][ClassifyTurn]_vars

(* The builder specification: calculateTrajectory is applied to a list of *)
(* up to MaxBuildWaypoints waypoints on the lattice, each Forward or       *)
(* Astern, under either pivot duration, either turning radius and with or  *)
(* without drift.                                                          *)
BuildInputs ==
    UNION { { [j \in 1..n |->
                 [id |-> j, lat |-> pts[j].lat, lng |-> pts[j].lng,
                  speedToNext |-> DefaultSpeed,
                  propulsionDirection |-> dirs[j]]] :
              pts \in [1..n -> GeoPoints], dirs \in [1..n -> Propulsions] } :
            n \in 0..MaxBuildWaypoints }

BuildInit ==
    /\ waypoints \in BuildInputs
    /\ ship \in {[DefaultShip EXCEPT !.turningRadius = r] : r \in TurningRadii}
    /\ pivotDuration \in PivotDurations
    /\ environmentalFactors \in Environments
    /\ clock = MaxClock
    /\ trajectoryLegs = << >>
    /\ preview = NoPreview
    /\ turnCase = NoTurn
    /\ turnResult = NoTurn
    /\ funCase = NoCase
    /\ funResult = NoCase
    /\ AnimInit

(* the first render of the plan *)
BuildLegs ==
    /\ trajectoryLegs = << >>
    /\ Len(waypoints) >= 2
    /\ trajectoryLegs' = useTrajectoryCalculations(waypoints, ship,
                             pivotDuration, environmentalFactors)
    /\ UNCHANGED <<waypoints, ship, pivotDuration, environmentalFactors,
                   clock, preview, nonPlanVars>>

SpecBuild == BuildInit /\ [][BuildLegs]_vars

(* The drift specification: calculateTrajectory is applied to two or      *)
(* three waypoints, sailed at the default speed or at speed 0, under a     *)
(* current and a wind of none, moderate or extreme speed.                  *)
CurrentSpeeds == {0, 5, 50}
WindSpeeds == {0, 50, 200}
ForcingDirections == {0, 4500, 9000}

DriftEnvironments ==
    [driftEnabled : BOOLEAN,
     wind : [speed : WindSpeeds, direction : ForcingDirections],
     current : [speed : CurrentSpeeds, direction : ForcingDirections]]

DriftInputs ==
    UNION { { [j \in 1..n |->
                 [id |-> j, lat |-> pts[j].lat, lng |-> pts[j].lng,
                  speedToNext |-> speeds[j],
                  propulsionDirection |-> FORWARD]] :
              pts \in [1..n -> GeoPoints], speeds \in [1..n -> Speeds] } :
            n \in 2..MaxWaypoints }

DriftInit ==
    /\ waypoints \in DriftInputs
    /\ ship = DefaultShip
    /\ pivotDuration = DefaultPivotDuration
    /\ environmentalFactors \in DriftEnvironments
    /\ clock = MaxClock
    /\ trajectoryLegs = << >>
    /\ preview = NoPreview
    /\ turnCase = NoTurn
    /\ turnResult = NoTurn
    /\ funCase = NoCase
    /\ funResult = NoCase
    /\ AnimInit

SpecDrift == DriftInit /\ [][BuildLegs]_vars

-----------------------------------------------------------------------------
(* The playback driver (useAnimation.ts) and its host.                     *)
(* A click handler is followed by a render before the next event, so      *)
(* after toggleAnimation the closure holds the new isAnimating.  The state *)
(* set from a frame callback is rendered later, by Render.                 *)

PlaybackSpeeds == {1, 256}
FrameGap == 250
HoldDelay == 1000

RECURSIVE SumOfTimes(_, _)
SumOfTimes(legs, k) ==
    IF k > Len(legs) THEN 0 ELSE legs[k].time + SumOfTimes(legs, k + 1)

(* trajectoryLegs.reduce((sum, leg) => sum + leg.time, 0) *)
totalDurationOf(legs) == SumOfTimes(legs, 1)

(* variant: the callback reads the legs and waypoints of the latest render *)
FrameOf_Live(id, sid, totalDuration, legs, wps) ==
    [id |-> id, sid |-> sid, requestedAt |-> now,
     totalDuration |-> totalDurationOf(trajectoryLegs),
     legs |-> trajectoryLegs, wps |-> waypoints]

(* requestAnimationFrame(animate) for a session: the callback with what   *)
(* its closure captured                                                    *)
FrameOf(id, sid, totalDuration, legs, wps) ==
    [id |-> id, sid |-> sid, requestedAt |-> now,
     totalDuration |-> totalDuration, legs |-> legs, wps |-> wps]

(* cancelAnimationFrame(id) *)
cancelAnimationFrame(frameSet, id) == {f \in frameSet : f.id # id}

(* variant: the stop branch leaves the scheduled callback in place *)
toggleStop_NoCancel ==
    /\ closureIsAnimating
    /\ frames' = frames
    /\ isAnimating' = FALSE
    /\ animationState' = NoState
    /\ closureIsAnimating' = FALSE
    /\ cancelled' = IF isAnimating THEN cancelled \cup {session} ELSE cancelled
    /\ stopped' = TRUE
    /\ hold' = NoHold
    /\ UNCHANGED <<planVars, pureVars, animationFrameId, animationData,
                   playbackSpeed, timers, now, nextFrameId, session,
                   sessionTicks>>

(* toggleAnimation, the branch taken when the closure's isAnimating is true *)
toggleStop ==
    /\ closureIsAnimating
    /\ frames' = IF animationFrameId # 0
                 THEN cancelAnimationFrame(frames, animationFrameId)
                 ELSE frames
    /\ isAnimating' = FALSE
    /\ animationState' = NoState
    /\ closureIsAnimating' = FALSE
    /\ cancelled' = IF isAnimating THEN cancelled \cup {session} ELSE cancelled
    /\ stopped' = TRUE
    /\ hold' = NoHold
    /\ UNCHANGED <<planVars, pureVars, animationFrameId, animationData,
                   playbackSpeed, timers, now, nextFrameId, session,
                   sessionTicks>>

(* variant: a starting session goes on from the accumulator it finds *)
startAnimationData_Kept == animationData

(* the accumulator a starting session begins with *)
startAnimationData == [lastTimestamp |-> 0, scaledElapsed |-> 0]

(* toggleAnimation, the branch taken when the closure's isAnimating is false *)
toggleStart ==
    /\ ~closureIsAnimating
    /\ session < MaxSessions
    /\ LET totalDuration == totalDurationOf(trajectoryLegs)
       IN  IF totalDuration = 0
           THEN UNCHANGED animVars
           ELSE /\ isAnimating' = TRUE
                /\ closureIsAnimating' = TRUE
                /\ animationData' = startAnimationData
                /\ frames' = frames \cup
                       {FrameOf(nextFrameId, session + 1, totalDuration,
                                trajectoryLegs, waypoints)}
                /\ animationFrameId' = nextFrameId
                /\ nextFrameId' = nextFrameId + 1
                /\ session' = session + 1
                /\ stopped' = FALSE
                /\ hold' = NoHold
                /\ sessionTicks' = << >>
                /\ UNCHANGED <<animationState, playbackSpeed, timers, now,
                               cancelled>>
    /\ UNCHANGED <<planVars, pureVars>>

(* animate(timestamp), the callback f run by the host at timestamp now *)
animate(f) ==
    /\ f \in frames
    /\ now > f.requestedAt
    /\ LET timestamp == now
           lastTimestamp == IF animationData.lastTimestamp = 0 THEN timestamp
                            ELSE animationData.lastTimestamp
           delta == timestamp - lastTimestamp
           scaledElapsed == animationData.scaledElapsed + delta * playbackSpeed
           total == f.totalDuration * 1000
           finished == \/ total > 0 /\ scaledElapsed >= total
                       \/ total < 0 /\ scaledElapsed <= total
           progress == IF finished THEN total ELSE scaledElapsed
           newState == calculateAnimationState(f.legs, f.wps, progress)
           published == IF newState # NoState THEN newState ELSE animationState
       IN  /\ animationData' = [lastTimestamp |-> timestamp,
                                scaledElapsed |-> scaledElapsed]
           /\ animationState' = published
           /\ sessionTicks' = Append(sessionTicks,
                  [sid |-> f.sid, timestamp |-> timestamp, delta |-> delta,
                   speed |-> playbackSpeed, scaledElapsed |-> scaledElapsed,
                   progress |-> progress, total |-> total])
           /\ IF ~finished
              THEN /\ frames' = (frames \ {f}) \cup
                          {FrameOf(nextFrameId, f.sid, f.totalDuration,
                                   f.legs, f.wps)}
                   /\ animationFrameId' = nextFrameId
                   /\ nextFrameId' = nextFrameId + 1
                   /\ UNCHANGED <<isAnimating, timers, hold>>
              ELSE /\ frames' = frames \ {f}
                   /\ isAnimating' = FALSE
                   /\ timers' = timers \cup
                          {[sid |-> f.sid, due |-> now + HoldDelay]}
                   /\ hold' = [active |-> TRUE, sid |-> f.sid,
                               state |-> published, until |-> now + HoldDelay]
                   /\ UNCHANGED <<animationFrameId, nextFrameId>>
    /\ UNCHANGED <<planVars, pureVars, closureIsAnimating, playbackSpeed, now,
                   session, cancelled, stopped>>

(* the render that follows a state change made by a frame callback *)
Render ==
    /\ closureIsAnimating # isAnimating
    /\ closureIsAnimating' = isAnimating
    /\ UNCHANGED <<planVars, pureVars, isAnimating, animationState,
                   animationFrameId, animationData, playbackSpeed, hostVars,
                   historyVars>>

(* () => setAnimationState(null), run by the host at or after its due time *)
clearAfterHold(t) ==
    /\ t \in timers
    /\ now >= t.due
    /\ timers' = timers \ {t}
    /\ animationState' = NoState
    /\ UNCHANGED <<planVars, pureVars, isAnimating, closureIsAnimating,
                   animationFrameId, animationData, playbackSpeed, frames, now,
                   nextFrameId, historyVars>>

setPlaybackSpeed(speed) ==
    /\ speed # playbackSpeed
    /\ playbackSpeed' = speed
    /\ UNCHANGED <<planVars, pureVars, isAnimating, closureIsAnimating,
                   animationState, animationFrameId, animationData, hostVars,
                   historyVars>>

AdvanceClock ==
    /\ now + FrameGap <= MaxNow
    /\ now' = now + FrameGap
    /\ UNCHANGED <<planVars, pureVars, isAnimating, closureIsAnimating,
                   animationState, animationFrameId, animationData,
                   playbackSpeed, frames, timers, nextFrameId, historyVars>>

(* The playback specification: a plan has been drawn (two waypoints, or   *)
(* three with a change of propulsion, or two with a leg speed of 0), with  *)
(* or without drift, and is played.                                        *)
WaypointAt(id, lat, lng, speed, propulsion) ==
    [id |-> id, lat |-> lat, lng |-> lng, speedToNext |-> speed,
     propulsionDirection |-> propulsion]

DrawnPlans ==
    { <<WaypointAt(1, 0, 0, DefaultSpeed, FORWARD),
        WaypointAt(2, 1, 0, DefaultSpeed, FORWARD)>>,
      <<WaypointAt(1, 0, 0, DefaultSpeed, FORWARD),
        WaypointAt(2, 1, 0, DefaultSpeed, ASTERN),
        WaypointAt(3, 1, 1, DefaultSpeed, FORWARD)>>,
      <<WaypointAt(1, 0, 0, 0, FORWARD),
        WaypointAt(2, 1, 0, DefaultSpeed, FORWARD)>> }

PlaybackInit ==
    /\ waypoints \in DrawnPlans
    /\ ship = DefaultShip
    /\ pivotDuration = DefaultPivotDuration
    /\ environmentalFactors \in Environments
    /\ clock = MaxClock
    /\ trajectoryLegs = useTrajectoryCalculations(waypoints, ship,
                            pivotDuration, environmentalFactors)
    /\ preview = NoPreview
    /\ turnCase = NoTurn
    /\ turnResult = NoTurn
    /\ funCase = NoCase
    /\ funResult = NoCase
    /\ AnimInit

PlaybackNext ==
    \/ toggleStop
    \/ toggleStart
    \/ \E f \in frames : animate(f)
    \/ Render
    \/ \E t \in timers : clearAfterHold(t)
    \/ \E speed \in PlaybackSpeeds : setPlaybackSpeed(speed)
    \/ AdvanceClock

SpecPlayback == PlaybackInit /\ [][PlaybackNext]_vars

(* The interpolation specification: calculateAnimationState as a pure     *)
(* function, applied once to the legs of a plan at a chosen currentTime.   *)
InterpCurrents == {[speed |-> 0, direction |-> 0],
                   [speed |-> 5, direction |-> 0],
                   [speed |-> 50, direction |-> 9000]}
InterpEnvironments ==
    {NoDrift} \cup {[driftEnabled |-> TRUE,
                     wind |-> [speed |-> 0, direction |-> 0],
                     current |-> c] : c \in InterpCurrents}

InterpPlans ==
    UNION { { [j \in 1..n |->
                 WaypointAt(j, pts[j].lat, pts[j].lng, speeds[j], props[j])] :
              pts \in {f \in [1..n -> GeoPoints] : f[1] = [lat |-> 0, lng |-> 0]},
              speeds \in [1..n -> Speeds],
              props \in [1..n -> Propulsions] } :
            n \in 2..MaxWaypoints }

(* the cumulative end times of the legs, in milliseconds, 0 included *)
legEndTimes(legs) ==
    {(totalDurationOf(legs) - SumOfTimes(legs, k)) * 1000 :
         k \in 1..(Len(legs) + 1)}

(* the values of currentTime tried on a plan: around every leg boundary,   *)
(* inside a pivot, and past the end of the last leg                         *)
InterpOffsets == {0 - 500, 0, 500, 15000}
InterpTimes(legs) ==
    {t \in {e + d : e \in legEndTimes(legs), d \in InterpOffsets} :
         t >= 0 /\ t <= totalDurationOf(legs) * 1000 + 500}

InterpInit ==
    /\ waypoints \in InterpPlans
    /\ ship = DefaultShip
    /\ pivotDuration \in PivotDurations
    /\ environmentalFactors \in InterpEnvironments
    /\ clock = MaxClock
    /\ trajectoryLegs = calculateTrajectory(waypoints, ship, pivotDuration,
                                            environmentalFactors)
    /\ preview = NoPreview
    /\ turnCase = NoTurn
    /\ turnResult = NoTurn
    /\ funCase = NoCase
    /\ funResult = NoCase
    /\ AnimInit

Interpolate ==
    /\ funCase = NoCase
    /\ \E t \in InterpTimes(trajectoryLegs) :
           /\ funCase' = [known |-> TRUE, currentTime |-> t]
           /\ funResult' = [known |-> TRUE,
                               out |-> calculateAnimationState(
                                           trajectoryLegs, waypoints, t)]
    /\ UNCHANGED <<planVars, turnVars, animVars>>

SpecInterp == InterpInit /\ [][Interpolate]_vars

(* The no-forcing specification: the running predicted position of the   *)
(* builder's loop, over waypoints whose coordinates lie on both sides of   *)
(* zero and at the top of a binade.                                        *)
RECURSIVE predictedEndsFrom(_, _, _, _)
predictedEndsFrom(env, wps, k, currentPredictedPosition) ==
    IF k > Len(wps) - 1 THEN << >>
    ELSE LET predictedEnd ==
                 legPredictedEnd(env, Pt(wps[k]), Pt(wps[k + 1]),
                                 currentPredictedPosition)
         IN  <<predictedEnd>>
             \o predictedEndsFrom(env, wps, k + 1,
                                  IF predictedEnd # NoPoint THEN predictedEnd
                                  ELSE currentPredictedPosition)

WideLats == {0 - 3, Pow2(MantissaBits) - 2, Pow2(MantissaBits) - 1}
WideLngs == {Pow2(MantissaBits) - 2, Pow2(MantissaBits) - 1}
WidePoints == [lat : WideLats, lng : WideLngs]
WidePlans ==
    UNION { { [j \in 1..n |->
                 WaypointAt(j, pts[j].lat, pts[j].lng, DefaultSpeed, FORWARD)] :
              pts \in [1..n -> WidePoints] } :
            n \in 2..MaxWaypoints }

NoForcingInit ==
    /\ waypoints \in WidePlans
    /\ ship = DefaultShip
    /\ pivotDuration = DefaultPivotDuration
    /\ environmentalFactors \in Environments
    /\ clock = MaxClock
    /\ trajectoryLegs = << >>
    /\ preview = NoPreview
    /\ turnCase = NoTurn
    /\ turnResult = NoTurn
    /\ funCase = NoCase
    /\ funResult = NoCase
    /\ AnimInit

PredictPath ==
    /\ funResult = NoCase
    /\ funResult' = [known |-> TRUE,
                     out |-> predictedEndsFrom(
                                 environmentalFactors, waypoints, 1,
                                 initialPredictedPosition(waypoints))]
    /\ UNCHANGED <<planVars, turnVars, funCase, animVars>>

SpecNoForcing == NoForcingInit /\ [][PredictPath]_vars

(* The timing specification: the builder over plans whose speeds and      *)
(* pivot duration take every sign the inputs of the settings dialog and    *)
(* of an imported plan can give them.                                      *)
SignedSpeeds == {0 - 5, 0, 5}
SignedPivotDurations == {0 - 30, 0, 30}
TimedPlans ==
    UNION { { [j \in 1..n |->
                 WaypointAt(j, pts[j].lat, pts[j].lng, speeds[j], props[j])] :
              pts \in {f \in [1..n -> GeoPoints] : f[1] = [lat |-> 0, lng |-> 0]},
              speeds \in [1..n -> SignedSpeeds],
              props \in [1..n -> Propulsions] } :
            n \in 2..MaxWaypoints }

TimedInit ==
    /\ waypoints \in TimedPlans
    /\ ship = DefaultShip
    /\ pivotDuration \in SignedPivotDurations
    /\ environmentalFactors = NoDrift
    /\ clock = MaxClock
    /\ trajectoryLegs = << >>
    /\ preview = NoPreview
    /\ turnCase = NoTurn
    /\ turnResult = NoTurn
    /\ funCase = NoCase
    /\ funResult = NoCase
    /\ AnimInit

SpecTimes == TimedInit /\ [][BuildLegs]_vars

(* The spline specification: getPointOnCatmullRom at the two ends of its  *)
(* parameter, over control points that lie close together, as the          *)
(* waypoints of a harbour do.                                              *)
SplineLats == {Pow2(MantissaBits) - 12, Pow2(MantissaBits) - 10,
               Pow2(MantissaBits) - 6, Pow2(MantissaBits) - 2}
SplineLngs == {Pow2(MantissaBits) - 4, Pow2(MantissaBits) - 2}
SplinePoints == [lat : SplineLats, lng : SplineLngs]
SplineEnds == {0, 1}

SplineInit ==
    /\ PlanInit
    /\ turnCase = NoTurn
    /\ turnResult = NoTurn
    /\ funCase \in [known : {TRUE}, t : SplineEnds, p0 : SplinePoints,
                    p1 : SplinePoints, p2 : SplinePoints, p3 : SplinePoints]
    /\ funResult = NoCase
    /\ AnimInit

EvaluateSpline ==
    /\ funResult = NoCase
    /\ funResult' = [known |-> TRUE,
                     out |-> getPointOnCatmullRomRounded(
                                 funCase.t, funCase.p0, funCase.p1,
                                 funCase.p2, funCase.p3)]
    /\ UNCHANGED <<planVars, turnVars, funCase, animVars>>

SpecSpline == SplineInit /\ [][EvaluateSpline]_vars

(* The editing specification: waypoints are added, moved, given a speed   *)
(* and a propulsion, and deleted; two clicks may be handled within one     *)
(* reading of Date.now().                                                  *)
EditPoints == {[lat |-> 0, lng |-> 0], [lat |-> 1, lng |-> 0]}

EditNext ==
    \/ \E point \in EditPoints, t \in clock..(clock + 1) :
           handleAddWaypoint(point, t)
    \/ \E id \in WaypointIds, point \in EditPoints : MarkerDragEnd(id, point)
    \/ \E id \in WaypointIds, speed \in Speeds : handleSpeedChange(id, speed)
    \/ \E id \in WaypointIds, propulsion \in Propulsions :
           handlePropulsionChange(id, propulsion)
    \/ \E id \in WaypointIds : handleDeleteWaypoint(id)

SpecEdit == Init /\ [][EditNext]_vars

-----------------------------------------------------------------------------
(* Properties *)

RealLegs == 1..(Len(trajectoryLegs) - 1)

Built == Len(waypoints) < 2 \/ trajectoryLegs # << >>

(* C1: fewer than 2 waypoints give no legs; N >= 2 waypoints give exactly *)
(* N legs, N-1 real legs followed by one terminal leg, whatever the ship,  *)
(* the pivot duration and the environment.                                 *)
C1_LegCount ==
    Built =>
        /\ Len(waypoints) < 2 =>
              /\ trajectoryLegs = << >>
              /\ useTrajectoryCalculations(waypoints, ship, pivotDuration,
                                           environmentalFactors) = << >>
        /\ Len(waypoints) >= 2 =>
              /\ Len(trajectoryLegs) = Len(waypoints)
              /\ \A k \in 1..(Len(waypoints) - 1) :
                    /\ trajectoryLegs[k].command # END
                    /\ trajectoryLegs[k].start = waypoints[k]
                    /\ trajectoryLegs[k].end = waypoints[k + 1]
              /\ trajectoryLegs[Len(waypoints)].command = END

C1_Witness ==
    /\ Len(waypoints) = MaxBuildWaypoints
    /\ Len(trajectoryLegs) = MaxBuildWaypoints
    /\ pivotDuration = 0
    /\ environmentalFactors.driftEnabled
    /\ ship.turningRadius # DefaultTurningRadius

(* C2: the last leg, and only the last, is END; it has zero distance,     *)
(* curveDistance, time, pivotTime and speed, starts and ends at the last  *)
(* waypoint, and copies the last real leg's course and endHeading.         *)
C2_TerminalLeg ==
    Len(waypoints) >= 2 =>
        LET n == Len(trajectoryLegs)
            last == trajectoryLegs[n]
            finalLeg == trajectoryLegs[n - 1]
        IN  /\ \A k \in 1..n : (trajectoryLegs[k].command = END) <=> (k = n)
            /\ last.distance = 0
            /\ last.curveDistance = 0
            /\ last.time = 0
            /\ last.pivotTime = 0
            /\ last.speed = 0
            /\ last.start = waypoints[Len(waypoints)]
            /\ last.end = waypoints[Len(waypoints)]
            /\ last.course = finalLeg.course
            /\ last.startHeading = finalLeg.endHeading
            /\ last.endHeading = finalLeg.endHeading

C2_Witness ==
    /\ Len(trajectoryLegs) = 3
    /\ trajectoryLegs[3].command = END
    /\ trajectoryLegs[2].endHeading # trajectoryLegs[2].startHeading
    /\ trajectoryLegs[3].startHeading = trajectoryLegs[2].endHeading
    /\ trajectoryLegs[2].course # 0

(* the propulsion a waypoint states, Forward when it states none *)
StatedPropulsion(w) ==
    IF w.propulsionDirection = undefined THEN FORWARD ELSE w.propulsionDirection

PropulsionDiffers(k) ==
    k > 1 /\ trajectoryLegs[k].propulsion # trajectoryLegs[k - 1].propulsion

(* C3 as stated: pivotTime > 0 iff the leg is not the first and its       *)
(* propulsion differs from the previous leg's; a non-zero pivotTime is the *)
(* pivot duration.                                                         *)
C3_Original ==
    \A k \in RealLegs :
        /\ trajectoryLegs[k].propulsion = StatedPropulsion(waypoints[k])
        /\ (trajectoryLegs[k].pivotTime > 0) <=> PropulsionDiffers(k)
        /\ trajectoryLegs[k].pivotTime # 0 =>
               trajectoryLegs[k].pivotTime = pivotDuration

(* C3 (amended): a leg's pivotTime is the pivot duration when the leg is  *)
(* not the first and its propulsion differs from the previous leg's, and 0 *)
(* otherwise; so it is > 0 iff the propulsion differs and the configured  *)
(* duration is > 0.                                                        *)
C3_PivotInsertion ==
    \A k \in RealLegs :
        /\ trajectoryLegs[k].propulsion = StatedPropulsion(waypoints[k])
        /\ trajectoryLegs[k].pivotTime =
               (IF PropulsionDiffers(k) THEN pivotDuration ELSE 0)
        /\ (trajectoryLegs[k].pivotTime > 0) <=>
               (PropulsionDiffers(k) /\ pivotDuration > 0)

C3_Witness ==
    /\ Len(trajectoryLegs) = 3
    /\ trajectoryLegs[1].propulsion = ASTERN
    /\ trajectoryLegs[1].pivotTime = 0
    /\ trajectoryLegs[2].propulsion = FORWARD
    /\ trajectoryLegs[2].pivotTime = DefaultPivotDuration

(* C4: the first leg is START and no other is; a later leg is STRAIGHT    *)
(* when |turnAngle| <= 5 degrees, PORT above +5 and STARBOARD below -5,    *)
(* turnAngle being course - previousCourse brought within +/-180 degrees. *)
C4_Classification ==
    turnResult.known =>
        LET k == turnCase.k
            out == turnResult.out
            t == out.turnAngle
        IN  /\ k = 1 => out.command = START /\ t = 0
            /\ k > 1 =>
                  /\ (t - (turnCase.course - turnCase.previousCourse))
                         % FullCircle = 0
                  /\ Abs(t) <= HalfCircle
                  /\ out.command =
                        (IF t > 500 THEN PORT
                         ELSE IF t < 0 - 500 THEN STARBOARD ELSE STRAIGHT)

C4_Witness ==
    /\ turnResult.known
    /\ turnCase.k = 2
    /\ turnCase.previousCourse = 35999
    /\ turnCase.course = 500
    /\ turnResult.out = [command |-> PORT, turnAngle |-> 501]

(* C5: a leg is flagged only if its command is PORT or STARBOARD and its  *)
(* pivotTime is 0, and such a leg is flagged exactly when its turn radius *)
(* is finite and below ship.turningRadius.                                 *)
C5_TurnRadiusViolation ==
    \A k \in 1..Len(trajectoryLegs) :
        LET leg == trajectoryLegs[k]
            eligible == leg.command \in {PORT, STARBOARD} /\ leg.pivotTime = 0
        IN  /\ leg.turnRadiusViolation => eligible
            /\ eligible =>
                  LET cp == legControlPoints(waypoints, pivotDuration, k)
                      r == calculateTurnRadius(cp.p0, cp.p1, cp.p2, cp.p3)
                  IN  leg.turnRadiusViolation <=>
                          (~r.infinite /\ r.metres < ship.turningRadius)

C5_Witness ==
    /\ Len(trajectoryLegs) = MaxBuildWaypoints
    /\ \E k \in RealLegs :
          /\ trajectoryLegs[k].turnRadiusViolation
          /\ trajectoryLegs[k].command = STARBOARD
    /\ \E k \in RealLegs :
          /\ trajectoryLegs[k].pivotTime > 0
          /\ trajectoryLegs[k].command = PORT
          /\ ~trajectoryLegs[k].turnRadiusViolation
          /\ LET cp == legControlPoints(waypoints, pivotDuration, k)
                 r == calculateTurnRadius(cp.p0, cp.p1, cp.p2, cp.p3)
             IN  ~r.infinite /\ r.metres < ship.turningRadius

PointsOf(cp) == <<Pt(cp.p0), Pt(cp.p1), Pt(cp.p2), Pt(cp.p3)>>

(* C10: for every real leg the interpolator selects, on the intended      *)
(* waypoints, the four control points the leg builder used for that leg.   *)
C10_SameControlPoints ==
    \A k \in RealLegs :
        PointsOf(animControlPoints(trajectoryLegs[k], waypoints, waypoints, k))
            = PointsOf(legControlPoints(waypoints, pivotDuration, k))

(* C6: after toggleAnimation stops a running session no callback of that  *)
(* session stays scheduled (so none fires or publishes), and              *)
(* animationState is none from the stop until a new session is started.   *)
C6_Cancellation ==
    /\ \A f \in frames : f.sid \notin cancelled
    /\ stopped => animationState = NoState
    /\ stopped => ~isAnimating /\ frames = {}

C6_Witness ==
    /\ stopped
    /\ session \in cancelled
    /\ Len(sessionTicks) >= 2
    /\ sessionTicks[Len(sessionTicks)].sid = session
    /\ sessionTicks[Len(sessionTicks)].progress > 0
    /\ now > sessionTicks[Len(sessionTicks)].timestamp
    /\ timers # {}

(* C7: when a tick computes progress == 1 the final state is published,   *)
(* no further tick is scheduled and isAnimating is false; the final state *)
(* stays published for the hold delay (until a new toggle).                *)
C7_CompletionAndHold ==
    hold.active =>
        /\ ~isAnimating
        /\ \A f \in frames : f.sid # hold.sid
        /\ hold.state # NoState
        /\ now < hold.until => animationState = hold.state

C9_SameResult ==
    /\ (environmentalFactors.driftEnabled /\ Len(waypoints) >= 2) =>
           trajectoryLegs[1].predictedEnd =
               [lat |-> waypoints[1].lat + (waypoints[2].lat - waypoints[1].lat),
                lng |-> waypoints[1].lng + (waypoints[2].lng - waypoints[1].lng)]
    /\ preview.active =>
          LET wps == preview.newWaypoints
          IN  /\ (preview.inputs[3].driftEnabled /\ Len(wps) >= 2) =>
                     preview.previewLegs[1].predictedEnd =
                         [lat |-> wps[1].lat + (wps[2].lat - wps[1].lat),
                          lng |-> wps[1].lng + (wps[2].lng - wps[1].lng)]
              /\ (/\ wps = waypoints
                  /\ preview.inputs = <<ship, pivotDuration,
                                        environmentalFactors>>) =>
                     preview.previewLegs = trajectoryLegs

C11_ControlPointSelection ==
    Built =>
        \A k \in RealLegs :
            LET cp == legControlPoints(waypoints, pivotDuration, k)
                leg == trajectoryLegs[k]
                startsPivot == k > 1 /\ leg.propulsion # trajectoryLegs[k - 1].propulsion
                nextPivots == k + 1 < Len(waypoints)
                              /\ StatedPropulsion(waypoints[k + 1]) # leg.propulsion
            IN  /\ cp.p1 = waypoints[k]
                /\ cp.p2 = waypoints[k + 1]
                /\ cp.p0 = (IF k = 1 \/ startsPivot THEN waypoints[k]
                            ELSE waypoints[k - 1])
                /\ cp.p3 = (IF k = Len(waypoints) - 1 \/ nextPivots
                            THEN waypoints[k + 1] ELSE waypoints[k + 2])

ActiveForcing ==
    /\ environmentalFactors.driftEnabled
    /\ (environmentalFactors.current.speed > 0
        \/ environmentalFactors.wind.speed > 0)

(* |(driftSpeed / shipSpeed) * sin(courseAngle - driftAngle)| > 1 for a   *)
(* single forcing: the drift is the current, or 3% of the wind, and sets   *)
(* toward the direction opposite to the one it comes from                  *)
Unmaintainable(leg) ==
    LET env == environmentalFactors
    IN  IF env.wind.speed = 0
        THEN env.current.speed
                 * Abs(Sin(leg.course - (env.current.direction + HalfCircle)))
             > leg.speed * 10000
        ELSE 3 * env.wind.speed
                 * Abs(Sin(leg.course - (env.wind.direction + HalfCircle)))
             > 100 * leg.speed * 10000

SentinelLeg(leg) ==
    leg.courseCorrectionAngle = NoNumber \/ leg.courseCorrectionAngle = NaN

C13_SentinelNeverReachesHeading ==
    /\ \A k \in 1..Len(trajectoryLegs) :
           /\ SentinelLeg(trajectoryLegs[k])
                  => legCorrection(trajectoryLegs[k]) = Number(0)
           /\ correctedHeading(trajectoryLegs, k) # NaN
           /\ (trajectoryLegs[k].command = END /\ k > 1
                  /\ SentinelLeg(trajectoryLegs[k - 1]))
                  => correctedHeading(trajectoryLegs, k)
                         = Number(trajectoryLegs[k - 1].endHeading)
           /\ (trajectoryLegs[k].command # END
                  /\ SentinelLeg(trajectoryLegs[k]))
                  => correctedHeading(trajectoryLegs, k)
                         = Number(trajectoryLegs[k].startHeading)
    /\ (funResult.known /\ funResult.out # NoState)
           => funResult.out.heading # NaN
    /\ fallbackState(trajectoryLegs,
                     predictedPathPoints(trajectoryLegs, waypoints)).heading
           # NaN

(* a leg whose course cannot be held is interpolated in its movement phase *)
C13_Witness ==
    /\ funResult.known
    /\ LET sel == selectLeg(trajectoryLegs, funCase.currentTime, 1, 0)
       IN  /\ sel.found
           /\ trajectoryLegs[sel.k].courseCorrectionAngle = NaN
           /\ sel.timeIntoLeg >= trajectoryLegs[sel.k].pivotTime * 1000
           /\ trajectoryLegs[sel.k].time > trajectoryLegs[sel.k].pivotTime
           /\ funResult.out.heading
                  = Number(trajectoryLegs[sel.k].startHeading)

(* C14: with drift enabled and no wind and no current, the predicted end  *)
(* of every real leg is the leg's end waypoint                             *)
C14_PredictedEqualsIntended ==
    (funResult.known /\ environmentalFactors.driftEnabled
         /\ environmentalFactors.wind.speed = 0
         /\ environmentalFactors.current.speed = 0)
        => \A i \in 1..(Len(waypoints) - 1) :
               funResult.out[i] = Pt(waypoints[i + 1])

C16_TurnAngleInterval ==
    Built => \A k \in RealLegs :
        k > 1 =>
            LET t == trajectoryLegs[k].turnAngle
            IN  /\ (t - (trajectoryLegs[k].course
                            - trajectoryLegs[k - 1].course)) % FullCircle = 0
                /\ t > 0 - HalfCircle
                /\ t <= HalfCircle

(* C17: getPointOnCatmullRom returns exactly p1 at t = 0 and exactly p2   *)
(* at t = 1, on both axes                                                  *)
C17_RoundTrip ==
    funResult.known =>
        /\ funCase.t = 0 => funResult.out = funCase.p1
        /\ funCase.t = 1 => funResult.out = funCase.p2

(* C19: after any sequence of add, move, speed-change, propulsion-change  *)
(* and delete operations the waypoints have pairwise distinct ids; an edit *)
(* changes no id and no order, an add appends, and a delete removes        *)
(* exactly one waypoint                                                    *)
IdsOf(wps) == [j \in 1..Len(wps) |-> wps[j].id]

DistinctIds ==
    \A i, j \in 1..Len(waypoints) :
        i # j => waypoints[i].id # waypoints[j].id

RemovesOne(before, after) ==
    \E k \in 1..Len(before) :
        after = SubSeq(before, 1, k - 1) \o SubSeq(before, k + 1, Len(before))

C19_DistinctStableIds ==
    /\ []DistinctIds
    /\ [][\/ IdsOf(waypoints') = IdsOf(waypoints)
          \/ /\ Len(waypoints') = Len(waypoints) + 1
             /\ SubSeq(waypoints', 1, Len(waypoints)) = waypoints
          \/ RemovesOne(waypoints, waypoints')]_vars

(* C20: the interpolator computes its state for the first real leg whose   *)
(* cumulative end time is at least currentTime, and for the leg just       *)
(* before the terminal leg when currentTime lies past every end, with      *)
(* timeIntoLeg counted from that leg's cumulative start                    *)
CumulativeEnd(legs, k) ==
    (totalDurationOf(legs) - SumOfTimes(legs, k + 1)) * 1000

ContainingLeg(legs, currentTime) ==
    LET reaching == {k \in 1..(Len(legs) - 1) :
                         CumulativeEnd(legs, k) >= currentTime}
    IN  IF reaching = {} THEN Len(legs) - 1
        ELSE CHOOSE k \in reaching : \A j \in reaching : k <= j

C20_LegSelection ==
    funResult.known =>
        LET legs == trajectoryLegs
            t == funCase.currentTime
            k == ContainingLeg(legs, t)
            timeIntoLeg == t - CumulativeEnd(legs, k - 1)
            path == predictedPathPoints(legs, waypoints)
        IN  /\ legs[k].command # END
            /\ funResult.out =
                   (IF timeIntoLeg < legs[k].pivotTime * 1000
                    THEN pivotState(legs, path, k, timeIntoLeg)
                    ELSE moveState(legs, waypoints, path, k, timeIntoLeg))

(* currentTime at the very end of the first of two legs that both take     *)
(* time: the first leg is the one interpolated, at the end of its move     *)
C20_Witness ==
    /\ funResult.known
    /\ Len(trajectoryLegs) = 3
    /\ trajectoryLegs[1].time > 0
    /\ trajectoryLegs[2].time > 0
    /\ funCase.currentTime = trajectoryLegs[1].time * 1000
    /\ funResult.out.speed = trajectoryLegs[1].speed
    /\ trajectoryLegs[1].speed # trajectoryLegs[2].speed

(* Scenario D: drift enabled, a 5 kn current from direction 0, no wind,   *)
(* and a leg of course 0 at 5 kn                                           *)
ScenarioD(leg) ==
    /\ environmentalFactors.driftEnabled
    /\ environmentalFactors.current = [speed |-> 5, direction |-> 0]
    /\ environmentalFactors.wind.speed = 0
    /\ leg.course = 0
    /\ leg.speed = DefaultSpeed

Selected == selectLeg(trajectoryLegs, funCase.currentTime, 1, 0)

InPivot ==
    /\ funResult.known
    /\ Selected.found
    /\ Selected.timeIntoLeg < trajectoryLegs[Selected.k].pivotTime * 1000

(* C21: in the pivot phase (timeIntoLeg < pivotTime for the selected leg   *)
(* i) the state has speed 0, its position is the predicted location of     *)
(* waypoint i, and its heading lies on the line from leg i-1's endHeading  *)
(* to leg i's startHeading at the fraction timeIntoLeg / pivotTime, the    *)
(* line running through the signed difference that lies within +/-180      *)
C21_PivotPhase ==
    InPivot =>
        LET k == Selected.k
            leg == trajectoryLegs[k]
            from == IF k > 1 THEN trajectoryLegs[k - 1].endHeading
                    ELSE leg.startHeading
            path == predictedPathPoints(trajectoryLegs, waypoints)
            pivotMs == leg.pivotTime * 1000
            turned == funResult.out.heading.value - from
        IN  /\ funResult.out.speed = 0
            /\ funResult.out.position =
                   [lat |-> path[k].lat, lng |-> path[k].lng, scale |-> 1]
            /\ path[k] = (IF \A j \in 1..(Len(trajectoryLegs) - 1) :
                                 trajectoryLegs[j].predictedEnd # NoPoint
                          THEN (IF k = 1 THEN Pt(waypoints[1])
                                ELSE trajectoryLegs[k - 1].predictedEnd)
                          ELSE waypoints[k])
            /\ \E diff \in (0 - HalfCircle)..HalfCircle :
                  /\ (diff - (leg.startHeading - from)) % FullCircle = 0
                  /\ turned * pivotMs <= diff * Selected.timeIntoLeg
                  /\ diff * Selected.timeIntoLeg < (turned + 1) * pivotMs

(* half a second into the pivot before an astern leg, with headings more   *)
(* than a half turn apart: the ship turns the short way, with drift and    *)
(* a predicted path                                                        *)
C21_Witness ==
    /\ InPivot
    /\ Selected.k = 2
    /\ Selected.timeIntoLeg = 500
    /\ trajectoryLegs[2].startHeading - trajectoryLegs[1].endHeading > HalfCircle
    /\ trajectoryLegs[1].predictedEnd # NoPoint
    /\ trajectoryLegs[1].predictedEnd # Pt(waypoints[2])
    /\ funResult.out.heading.value # trajectoryLegs[1].endHeading

InMove ==
    /\ funResult.known
    /\ Selected.found
    /\ Selected.timeIntoLeg >= trajectoryLegs[Selected.k].pivotTime * 1000

(* the number a leg's courseCorrectionAngle counts for: 0 when it is       *)
(* absent or not a number                                                  *)
CorrectionOrZero(leg) ==
    IF leg.courseCorrectionAngle = NoNumber \/ leg.courseCorrectionAngle = NaN
    THEN 0
    ELSE leg.courseCorrectionAngle.value

(* C22: in the move phase (timeIntoLeg >= pivotTime for the selected leg)  *)
(* the speed is leg.speed, legProgress is (timeIntoLeg - pivotTime) /      *)
(* moveTime (1 when moveTime is 0), the position is the point of the       *)
(* predicted path at legProgress, and the heading is the tangent heading   *)
(* on the intended control points at legProgress, turned 180 degrees when   *)
(* the leg is astern, plus the courseCorrectionAngle (0 if absent or not   *)
(* a number), wrapped into [0,360)                                         *)
C22_MovePhase ==
    InMove =>
        LET k == Selected.k
            leg == trajectoryLegs[k]
            moveTime == (leg.time - leg.pivotTime) * 1000
            timeIntoMove == Selected.timeIntoLeg - leg.pivotTime * 1000
            path == predictedPathPoints(trajectoryLegs, waypoints)
            pos == animControlPoints(leg, waypoints, path, k)
            head == animControlPoints(leg, waypoints, waypoints, k)
            out == funResult.out
            legProgress == IF moveTime > 0
                           THEN Fraction(timeIntoMove, moveTime)
                           ELSE [num |-> 1, den |-> 1]
            point == getPointOnCatmullRom(legProgress.num, legProgress.den,
                                          pos.p0, pos.p1, pos.p2, pos.p3)
            tangent == getHeadingOnCatmullRom(legProgress.num, legProgress.den,
                                              head.p0, head.p1, head.p2,
                                              head.p3)
            turn == IF leg.propulsion = ASTERN THEN HalfCircle ELSE 0
        IN  /\ out.speed = leg.speed
            /\ out.position =
                   [lat |-> point.lat, lng |-> point.lng,
                    scale |-> 2 * legProgress.den * legProgress.den
                                * legProgress.den]
            /\ out.heading # NaN
            /\ out.heading.value \in 0..(FullCircle - 1)
            /\ (out.heading.value - (tangent + turn + CorrectionOrZero(leg)))
                   % FullCircle = 0

(* half a second before the end of an astern leg entered through a pivot   *)
(* and sailed with a course correction                                     *)
C22_Witness ==
    /\ InMove
    /\ Selected.k = 2
    /\ trajectoryLegs[2].propulsion = ASTERN
    /\ trajectoryLegs[2].pivotTime > 0
    /\ Selected.timeIntoLeg = trajectoryLegs[2].time * 1000 - 500
    /\ Selected.timeIntoLeg > trajectoryLegs[2].pivotTime * 1000
    /\ CorrectionOrZero(trajectoryLegs[2]) # 0
    /\ funResult.out.speed = DefaultSpeed

-----------------------------------------------------------------------------
(* The fallback specification: calculateAnimationState applied to leg      *)
(* lists the walk can run through without selecting: no legs, a terminal   *)
(* entry alone, and a list whose entry before the terminal one is itself    *)
(* marked END.                                                             *)
FallbackInit ==
    /\ waypoints \in InterpPlans
    /\ ship = DefaultShip
    /\ pivotDuration \in PivotDurations
    /\ environmentalFactors \in InterpEnvironments
    /\ clock = MaxClock
    /\ \E legs \in {calculateTrajectory(waypoints, ship, pivotDuration,
                                        environmentalFactors)} :
           trajectoryLegs \in
               {<< >>, <<legs[Len(legs)]>>,
                [legs EXCEPT ![Len(legs) - 1].command = END]}
    /\ preview = NoPreview
    /\ turnCase = NoTurn
    /\ turnResult = NoTurn
    /\ funCase = NoCase
    /\ funResult = NoCase
    /\ AnimInit

SpecFallback == FallbackInit /\ [][Interpolate]_vars

(* C23: when the leg walk ends without selecting a leg and there is a leg  *)
(* at index legs.length - 2, the result is the last predicted path point   *)
(* as position, that leg's endHeading plus its correction, wrapped, as     *)
(* heading, and speed 0; when there is no such leg the result is none      *)
C23_Fallback ==
    (funResult.known /\ ~Selected.found) =>
        IF Len(trajectoryLegs) >= 2
        THEN LET lastLeg == trajectoryLegs[Len(trajectoryLegs) - 1]
                 path == predictedPathPoints(trajectoryLegs, waypoints)
                 out == funResult.out
             IN  /\ out.speed = 0
                 /\ out.position = [lat |-> path[Len(path)].lat,
                                    lng |-> path[Len(path)].lng, scale |-> 1]
                 /\ out.heading # NaN
                 /\ out.heading.value \in 0..(FullCircle - 1)
                 /\ (out.heading.value
                        - (lastLeg.endHeading + CorrectionOrZero(lastLeg)))
                        % FullCircle = 0
        ELSE funResult.out = NoState

(* the walk runs out on a list of three entries whose second is marked     *)
(* END and carries a correction, on a predicted path                       *)
C23_Witness ==
    /\ funResult.known
    /\ ~Selected.found
    /\ Len(trajectoryLegs) = 3
    /\ CorrectionOrZero(trajectoryLegs[2]) # 0
    /\ trajectoryLegs[2].predictedEnd # NoPoint
    /\ trajectoryLegs[2].predictedEnd # Pt(waypoints[3])
    /\ funResult.out.speed = 0

(* the running predicted position leg k starts from *)
PredictionOrigin(k) ==
    IF k = 1 THEN Pt(waypoints[1]) ELSE trajectoryLegs[k - 1].predictedEnd

(* C24: with drift disabled no leg carries sog, cogCourse, predictedEnd    *)
(* or courseCorrectionAngle; with drift enabled every real leg carries a   *)
(* predictedEnd and the terminal leg none, so that there are exactly       *)
(* waypoints.length - 1 predicted ends, and leg i's predictedEnd is        *)
(* computed from leg i-1's predictedEnd as origin, from the first waypoint *)
(* for the first leg                                                       *)
C24_DriftFields ==
    Built =>
        IF ~environmentalFactors.driftEnabled
        THEN \A k \in 1..Len(trajectoryLegs) :
                 /\ trajectoryLegs[k].sog = NoNumber
                 /\ trajectoryLegs[k].cogCourse = NoNumber
                 /\ trajectoryLegs[k].predictedEnd = NoPoint
                 /\ trajectoryLegs[k].courseCorrectionAngle = NoNumber
        ELSE /\ \A k \in RealLegs : trajectoryLegs[k].predictedEnd # NoPoint
             /\ trajectoryLegs[Len(trajectoryLegs)].predictedEnd = NoPoint
             /\ Cardinality({k \in 1..Len(trajectoryLegs) :
                                trajectoryLegs[k].predictedEnd # NoPoint})
                    = Len(waypoints) - 1
             /\ \A k \in RealLegs :
                    LET leg == trajectoryLegs[k]
                    IN  leg.predictedEnd =
                            legDrift(environmentalFactors, waypoints[k],
                                     waypoints[k + 1], leg.course, leg.speed,
                                     leg.time - leg.pivotTime,
                                     PredictionOrigin(k)).predictedEnd

(* three waypoints under a current: the first leg is set off its end, and  *)
(* the second leg is predicted from where the first one ended              *)
C24_Witness ==
    /\ Built
    /\ environmentalFactors.driftEnabled
    /\ environmentalFactors.current.speed > 0
    /\ Len(waypoints) = 3
    /\ trajectoryLegs[1].predictedEnd # Pt(waypoints[2])
    /\ trajectoryLegs[2].predictedEnd # NoPoint
    /\ trajectoryLegs[2].predictedEnd #
           legDrift(environmentalFactors, waypoints[2], waypoints[3],
                    trajectoryLegs[2].course, trajectoryLegs[2].speed,
                    trajectoryLegs[2].time - trajectoryLegs[2].pivotTime,
                    Pt(waypoints[1])).predictedEnd

(* C25: the delayed clear scheduled when a session completes never clears  *)
(* the state of a later session: while a session is running and stays      *)
(* running, the state its ticks have published is not reset to none        *)
C25_NoStaleClear ==
    [][(/\ isAnimating
        /\ isAnimating'
        /\ sessionTicks # << >>
        /\ sessionTicks[Len(sessionTicks)].sid = session
        /\ animationState # NoState)
           => animationState' # NoState]_vars

-----------------------------------------------------------------------------
(* The toggle specification: the playback driver when the render that      *)
(* follows a toggle is not taken for granted.  toggleAnimation reads the   *)
(* isAnimating of the render that created it; until the hook renders       *)
(* again, a further call runs the same closure.                            *)

(* toggleAnimation's start branch, the render left to Render *)
toggleStartBeforeRender ==
    /\ ~closureIsAnimating
    /\ session < MaxSessions
    /\ totalDurationOf(trajectoryLegs) # 0
    /\ isAnimating' = TRUE
    /\ animationData' = startAnimationData
    /\ frames' = frames \cup
           {FrameOf(nextFrameId, session + 1,
                    totalDurationOf(trajectoryLegs), trajectoryLegs,
                    waypoints)}
    /\ animationFrameId' = nextFrameId
    /\ nextFrameId' = nextFrameId + 1
    /\ session' = session + 1
    /\ stopped' = FALSE
    /\ hold' = NoHold
    /\ sessionTicks' = << >>
    /\ UNCHANGED <<planVars, pureVars, closureIsAnimating, animationState,
                   playbackSpeed, timers, now, cancelled>>

(* the host's clock over the first frames after the page was opened *)
FirstFrames == 3
AdvanceClockEarly == now < FirstFrames * FrameGap /\ AdvanceClock

(* the toggles, the ticks and the renders; the multiplier stays at 1 *)
ToggleNext ==
    \/ toggleStop
    \/ toggleStart
    \/ toggleStartBeforeRender
    \/ \E f \in frames : animate(f)
    \/ Render
    \/ AdvanceClockEarly

SpecToggle == PlaybackInit /\ [][ToggleNext]_vars

(* C26: at any time at most one tick callback is scheduled for the         *)
(* playback driver, and one is scheduled only while isAnimating is true    *)
C26_SingleLoop ==
    /\ Cardinality(frames) <= 1
    /\ frames # {} => isAnimating

(* C27: every state the interpolator returns for legs made by the leg      *)
(* builder has a heading in [0,360), in the pivot phase and in the         *)
(* fallback as well as in the move phase                                   *)
C27_HeadingRange ==
    (funResult.known /\ funResult.out # NoState) =>
        /\ funResult.out.heading # NaN
        /\ funResult.out.heading.value \in 0..(FullCircle - 1)

(* C28: for the legs the leg builder makes from at least 2 waypoints the   *)
(* interpolator always returns a state from the leg walk, at every         *)
(* progress in [0,1] (and past it): it never returns none and never        *)
(* reaches the fallback, because the leg at index legs.length - 2 is a     *)
(* real leg and accepts                                                    *)
C28_WalkAlwaysSelects ==
    (funResult.known /\ Len(waypoints) >= 2) =>
        LET legs == trajectoryLegs
            sel == selectLeg(legs, funCase.currentTime, 1, 0)
            path == predictedPathPoints(legs, waypoints)
        IN  /\ legs[Len(legs) - 1].command # END
            /\ sel.found
            /\ sel.k <= Len(legs) - 1
            /\ funResult.out # NoState
            /\ funResult.out =
                   (IF sel.timeIntoLeg < legs[sel.k].pivotTime * 1000
                    THEN pivotState(legs, path, sel.k, sel.timeIntoLeg)
                    ELSE moveState(legs, waypoints, path, sel.k,
                                   sel.timeIntoLeg))

(* progress 1 on a plan of two legs that both take time: the walk passes   *)
(* the first leg and stops at the leg before the terminal one              *)
C28_Witness ==
    /\ funResult.known
    /\ Len(trajectoryLegs) = 3
    /\ trajectoryLegs[1].time > 0
    /\ trajectoryLegs[2].time > 0
    /\ funCase.currentTime = totalDurationOf(trajectoryLegs) * 1000
    /\ Selected.found
    /\ Selected.k = 2
    /\ funResult.out.speed = trajectoryLegs[2].speed

-----------------------------------------------------------------------------
(* The session specification: a plan is played to its end, never stopped   *)
(* by the user, with the pivot duration the settings panel was given (a    *)
(* negative one included): a two-waypoint plan, or three waypoints with    *)
(* legs of speed 0 and a change of propulsion.  The host keeps delivering  *)
(* frames at later timestamps, up to the horizon MaxNow: the clock is      *)
(* weakly fair, and so are the frame callbacks.  The fairness of the       *)
(* callbacks is written out, WF_v(A) being []<>~ENABLED <<A>>_v \/         *)
(* []<><<A>>_v: a callback is enabled exactly when one is scheduled with   *)
(* an earlier request time, and every run of it extends sessionTicks.      *)
SessionInit ==
    /\ waypoints \in
           { <<WaypointAt(1, 0, 0, DefaultSpeed, FORWARD),
               WaypointAt(2, 1, 0, DefaultSpeed, FORWARD)>>,
             <<WaypointAt(1, 0, 0, 0, FORWARD),
               WaypointAt(2, 1, 0, 0, ASTERN),
               WaypointAt(3, 1, 1, DefaultSpeed, FORWARD)>> }
    /\ ship = DefaultShip
    /\ pivotDuration \in SignedPivotDurations
    /\ environmentalFactors = NoDrift
    /\ clock = MaxClock
    /\ trajectoryLegs = useTrajectoryCalculations(waypoints, ship,
                            pivotDuration, environmentalFactors)
    /\ preview = NoPreview
    /\ turnCase = NoTurn
    /\ turnResult = NoTurn
    /\ funCase = NoCase
    /\ funResult = NoCase
    /\ AnimInit

SessionNext ==
    \/ toggleStart
    \/ \E f \in frames : animate(f)
    \/ Render
    \/ \E t \in timers : clearAfterHold(t)
    \/ \E speed \in PlaybackSpeeds : setPlaybackSpeed(speed)
    \/ AdvanceClock

SpecSession ==
    /\ SessionInit
    /\ [][SessionNext]_vars
    /\ WF_vars(AdvanceClock)
    /\ \/ []<>(~(\E f \in frames : now > f.requestedAt))
       \/ []<><<\E f \in frames : animate(f)>>_vars

(* the horizon was reached before the scheduled callback's session had     *)
(* been given its total duration of scaled time                             *)
HorizonBeforeEnd ==
    /\ now + FrameGap > MaxNow
    /\ \E f \in frames :
           animationData.scaledElapsed < f.totalDuration * 1000

(* C29: every started session ends: a running session leads to            *)
(* isAnimating false with no tick scheduled, unless the horizon of the     *)
(* clock comes before the session has been given its total duration; and   *)
(* no session runs on legs whose total duration is 0.                       *)
C29_SessionEnds ==
    /\ isAnimating ~> ((~isAnimating /\ frames = {}) \/ HorizonBeforeEnd)
    /\ [](isAnimating => totalDurationOf(trajectoryLegs) # 0)

-----------------------------------------------------------------------------
(* The live-edit specification: a drawn plan is played and, while the      *)
(* session runs, edited from the leg table and the map (the speed and      *)
(* propulsion inputs, the delete button and the plotting click stay        *)
(* usable during playback).  The edits are those of the first waypoint's   *)
(* row, and a click that adds a waypoint at (MaxCoord, MaxCoord).           *)
LiveNext ==
    \/ toggleStart
    \/ \E f \in frames : animate(f)
    \/ Render
    \/ AdvanceClockEarly
    \/ \E speed \in PlaybackSpeeds : setPlaybackSpeed(speed)
    \/ \E speed \in Speeds :
           /\ isAnimating /\ waypoints # << >>
           /\ handleSpeedChange(waypoints[1].id, speed)
    \/ \E propulsion \in Propulsions :
           /\ isAnimating /\ waypoints # << >>
           /\ handlePropulsionChange(waypoints[1].id, propulsion)
    \/ /\ isAnimating /\ waypoints # << >>
       /\ handleDeleteWaypoint(waypoints[1].id)
    \/ /\ isAnimating
       /\ handleAddWaypoint([lat |-> MaxCoord, lng |-> MaxCoord], clock)

SpecLive == PlaybackInit /\ [][LiveNext]_vars

(* a step that starts a session captures the legs, waypoints and total     *)
(* duration of the current render                                           *)
CapturedAtStart ==
    session' # session =>
        \A g \in frames' : g.sid = session' =>
            /\ g.legs = trajectoryLegs
            /\ g.wps = waypoints
            /\ g.totalDuration = totalDurationOf(trajectoryLegs)

(* the callback scheduled for a session carries the same snapshot after a  *)
(* step as before it                                                        *)
SnapshotKept ==
    \A f \in frames : \A g \in frames' : g.sid = f.sid =>
        /\ g.legs = f.legs
        /\ g.wps = f.wps
        /\ g.totalDuration = f.totalDuration

(* a step that edits the plan recomputes the displayed legs and leaves     *)
(* the session alone                                                        *)
EditLeavesSession ==
    waypoints' # waypoints =>
        /\ trajectoryLegs' = useTrajectoryCalculations(waypoints', ship,
                                 pivotDuration, environmentalFactors)
        /\ UNCHANGED <<frames, animationData, animationState, sessionTicks,
                       isAnimating>>

(* a tick computes its progress and its state from the snapshot of the     *)
(* callback that ran, and its scaled time from the multiplier of the       *)
(* moment                                                                   *)
TickFromSnapshot ==
    Len(sessionTicks') > Len(sessionTicks) =>
        \E f \in frames :
            LET t == sessionTicks'[Len(sessionTicks')]
                newState == calculateAnimationState(f.legs, f.wps, t.progress)
            IN  /\ t.sid = f.sid
                /\ t.total = f.totalDuration * 1000
                /\ t.scaledElapsed =
                       animationData.scaledElapsed + t.delta * playbackSpeed
                /\ t.progress = IF t.scaledElapsed < t.total
                                THEN t.scaledElapsed ELSE t.total
                /\ animationState' = IF newState # NoState THEN newState
                                     ELSE animationState

(* C30: a running session plays the snapshot captured at its start: plan   *)
(* edits recompute the displayed legs but change neither the total         *)
(* duration, nor the progress, nor the leg data its states are computed    *)
(* from; only the speed multiplier is read at each tick.                    *)
C30_SessionSnapshot ==
    [][CapturedAtStart /\ SnapshotKept /\ EditLeavesSession
       /\ TickFromSnapshot]_vars

(* a running session publishes from its snapshot a state that the edited   *)
(* plan would not give, at a progress past its start                        *)
C30_Witness ==
    /\ isAnimating
    /\ sessionTicks # << >>
    /\ sessionTicks[Len(sessionTicks)].progress > 0
    /\ \E f \in frames :
           /\ f.sid = session
           /\ f.legs # trajectoryLegs
           /\ f.totalDuration # totalDurationOf(trajectoryLegs)
           /\ animationState =
                  calculateAnimationState(f.legs, f.wps,
                      sessionTicks[Len(sessionTicks)].progress)
           /\ animationState #
                  calculateAnimationState(trajectoryLegs, waypoints,
                      sessionTicks[Len(sessionTicks)].progress)
=============================================================================
